---- MODULE Spec2Model ----
(***************************************************************************)
(* Crew rostering: eligibility builder, exact constraint model, genetic    *)
(* optimizer and the /api/optimize and /api/reoptimize handlers.           *)
(*                                                                         *)
(* Times are minutes since 00:00 of day 0 (a datetime is one integer; its  *)
(* date is t \div 1440 and its time of day t % 1440).  A raw string that   *)
(* the code splits (qualified_types) is a sequence of tokens in which "|"  *)
(* and "," are the separator characters.                                   *)
(***************************************************************************)
EXTENDS Integers, Sequences, FiniteSets, TLC

VARIABLES
    flights,          \* loaded flights (list of Flight), in file order
    crew,             \* loaded crew (list of Crew), in file order
    sickness_days,    \* DataBundle.sickness_days: crew_id -> set of days
    role_slots,       \* EligibilityBundle.role_slots
    eligible,         \* EligibilityBundle.eligible
    epc,              \* position of the eligibility build: "load" | "built"
    rules,            \* DataBundle.rules
    x,                \* ModelArtifacts.x: the keys of the decision variables, in order
    has_objective,    \* add_objective has been applied to the model
    chosen,           \* the keys whose variable the solver set to 1
    status,           \* solver.StatusName(status_code), "" before Solve
    xpc,              \* position of the exact path: "idle" | "model" | "objective" | "solved" | "returned"
    exact_result,     \* what run_optimization(use_genetic=False) returned, <<>> before
    ga_flights,       \* GeneticOptimizer.flights
    ga_crew,          \* GeneticOptimizer.crew
    baseline_pairs,   \* GeneticOptimizer.baseline_pairs
    exclude_crew,     \* GeneticOptimizer.exclude_crew
    exclude_flights,  \* GeneticOptimizer.exclude_flights
    population,       \* optimize: population
    new_population,   \* optimize: new_population of the generation under way
    fitness_scores,   \* optimize: fitness_scores, one per individual of population
    best_solution,    \* GeneticOptimizer.best_solution, <<>> for None
    best_fitness,     \* GeneticOptimizer.best_fitness
    generation,       \* generations completed
    gpc,              \* position of the genetic path
    ga_request,       \* the request being served by the genetic path
    result,           \* what optimize returned
    requests_done,    \* requests the genetic path has answered
    over_time,        \* time.time() - start_time > config.max_time_seconds
    baseline_roster,  \* app.py global, <<>> for None, else <<result>>
    current_roster,   \* app.py global, <<>> for None, else <<result>>
    optimization_jobs,\* app.py global: the job records, job ids being 1, 2, ...
    api_pc,           \* position of the handler serving the current request
    api_kind,         \* "optimize" | "reoptimize"
    attempts,         \* the calls of run_optimization made for the current request
    api_result,       \* the handler's local variable result
    api_response,     \* the HTTP status last answered, 0 before any answer
    handlers,         \* the handlers that serve requests side by side: position and locals
    stab              \* two runs of optimize that differ in w_stability only

eligVars == <<flights, crew, sickness_days, role_slots, eligible, epc>>
exactVars == <<rules, x, has_objective, chosen, status, xpc, exact_result>>

gaVars == <<ga_flights, ga_crew, baseline_pairs, exclude_crew, exclude_flights,
           population, new_population, fitness_scores, best_solution, best_fitness,
           generation, gpc, ga_request, result, requests_done, over_time>>
appVars == <<baseline_roster, current_roster>>
apiVars == <<optimization_jobs, api_pc, api_kind, attempts, api_result, api_response, handlers>>

vars == <<eligVars, exactVars, gaVars, appVars, apiVars, stab>>

-----------------------------------------------------------------------------
(* Generic helpers on sequences *)

Range(s) == {s[i] : i \in 1..Len(s)}

RECURSIVE SeqSum(_)
SeqSum(s) == IF s = <<>> THEN 0 ELSE Head(s) + SeqSum(Tail(s))

RECURSIVE SetSum(_, _)
\* sum of w[x] over the finite set S
SetSum(S, w) ==
    IF S = {} THEN 0
    ELSE LET e == CHOOSE y \in S : TRUE IN w[e] + SetSum(S \ {e}, w)

RECURSIVE Concat(_)
\* concatenation of a sequence of sequences
Concat(ss) == IF ss = <<>> THEN <<>> ELSE Head(ss) \o Concat(Tail(ss))

\* the list [x] * n
Repeat(n, F(_)) == [i \in 1..n |-> F(i - 1)]

-----------------------------------------------------------------------------
(* models.py: time, roles, qualification *)

MinutesPerDay == 1440

DateOf(t) == t \div MinutesPerDay
TimeOf(t) == t % MinutesPerDay

\* str.strip() on the raw role strings of the model's alphabet
Strip(raw) ==
    CASE raw = " Cabin Crew " -> "Cabin Crew"
      [] raw = "FO "          -> "FO"
      [] OTHER                -> raw

role_key(raw) ==
    LET r == Strip(raw) IN
    IF r \in {"FO", "First Officer"} THEN "FO"
    ELSE IF r \in {"Senior Crew", "Senior Cabin Crew", "SC"} THEN "SC"
    ELSE IF r \in {"Junior Cabin Crew", "Cabin Crew", "CC"} THEN "CC"
    ELSE "Captain"

RECURSIVE SplitAcc(_, _, _)
\* str.split(sep): the segments between occurrences of sep (empty segments kept)
SplitAcc(s, sep, cur) ==
    IF s = <<>> THEN <<cur>>
    ELSE IF Head(s) = sep THEN <<cur>> \o SplitAcc(Tail(s), sep, <<>>)
    ELSE SplitAcc(Tail(s), sep, Append(cur, Head(s)))

Split(s, sep) == SplitAcc(s, sep, <<>>)

\* ac_type in str(qualified_types).split("|")
has_qual(qualified_types, ac_type) ==
    <<ac_type>> \in Range(Split(qualified_types, "|"))

-----------------------------------------------------------------------------
(* eligibility.py *)

RoleSlot(f, r, i) == [flight_id |-> f, role |-> r, slot_index |-> i]

SlotsOfFlight(f) ==
       Repeat(f.needed_captains, LAMBDA i : RoleSlot(f.flight_id, "Captain", i))
    \o Repeat(f.needed_fo,       LAMBDA i : RoleSlot(f.flight_id, "FO", i))
    \o Repeat(f.needed_sc,       LAMBDA i : RoleSlot(f.flight_id, "SC", i))
    \o Repeat(f.needed_cc,       LAMBDA i : RoleSlot(f.flight_id, "CC", i))

build_role_slots(fl) == Concat([k \in 1..Len(fl) |-> SlotsOfFlight(fl[k])])

FlightById(fl, fid) == CHOOSE f \in Range(fl) : f.flight_id = fid

day_by_flight(fl, fid) == DateOf(FlightById(fl, fid).dep_dt)

minutes_by_flight(fl, fid) ==
    LET f == FlightById(fl, fid)
        m == f.arr_dt - f.dep_dt
    IN IF m > 1 THEN m ELSE 1

\* mutant of _crew_can_work_that_day: the per-day sickness map is ignored
CanWorkIgnoringSickness(crew_id, day, sick) == TRUE

_crew_can_work_that_day(crew_id, day, sick) ==
    LET sick_days == IF crew_id \in DOMAIN sick THEN sick[crew_id] ELSE {}
    IN day \notin sick_days

_crew_role_matches(slot_role, crew_role_raw) == role_key(crew_role_raw) = slot_role

_crew_qualified_for(ac_type, qualified_types) == has_qual(qualified_types, ac_type)

\* the inner loop: the crew, in roster order, that may fill one slot
EligibleForSlot(slot, fl, cr, sick) ==
    LET f == FlightById(fl, slot.flight_id)
        ok(c) == /\ _crew_role_matches(slot.role, c.role)
                 /\ _crew_qualified_for(f.aircraft_type, c.qualified_types)
                 /\ _crew_can_work_that_day(c.crew_id, day_by_flight(fl, slot.flight_id), sick)
    IN SelectSeq([k \in 1..Len(cr) |->
                    <<cr[k].crew_id, slot.flight_id, slot.role, slot.slot_index>>],
                 LAMBDA t : \E k \in 1..Len(cr) : cr[k].crew_id = t[1] /\ ok(cr[k]))

build_eligibility(fl, cr, sick) ==
    LET rs == build_role_slots(fl)
    IN Concat([k \in 1..Len(rs) |-> EligibleForSlot(rs[k], fl, cr, sick)])

-----------------------------------------------------------------------------
(* Stable sort (list.sort / sorted with a key) *)

RECURSIVE InsertByKey(_, _, _)
\* insert e after every element whose key is <= key[e]
InsertByKey(sorted, e, key) ==
    IF sorted = <<>> THEN <<e>>
    ELSE IF key[Head(sorted)] <= key[e]
         THEN <<Head(sorted)>> \o InsertByKey(Tail(sorted), e, key)
         ELSE <<e>> \o sorted

RECURSIVE SortByKey(_, _)
\* the elements of s ordered by key, equal keys in their order in s;
\* key is a function on the elements
SortByKey(s, key) ==
    IF s = <<>> THEN <<>>
    ELSE InsertByKey(SortByKey(SubSeq(s, 1, Len(s) - 1), key), s[Len(s)], key)

RECURSIVE Dedupe(_)
\* the distinct elements of s in the order of their first occurrence
Dedupe(s) ==
    IF s = <<>> THEN <<>>
    ELSE LET r == Dedupe(SubSeq(s, 1, Len(s) - 1))
         IN IF s[Len(s)] \in Range(r) THEN r ELSE Append(r, s[Len(s)])

-----------------------------------------------------------------------------
(* models.py: Rules and the time-window tests; loader.py: the defaults *)

DefaultTurnaround == 45
DefaultMinRestHours == 12
DefaultMaxOvernight == 4
DefaultMaxConsecutiveNights == 3
DefaultNightStart == 1320
DefaultNightEnd == 300
DefaultWoclStart == 120
DefaultWoclEnd == 360
DefaultFt7Hours == 40
DefaultUlhHours == 11
DefaultExpMinMonths == 12
DefaultMinSccmUlh == 2
DefaultDailyPilot == 10
DefaultDailyCabin == 11
DefaultWeeklyHours == 45

\* _rules_from_json({}) with the minimum rest of the rules file
RulesWith(min_rest_hours) ==
    [daily_max_duty_hrs |-> [k \in {"Captain", "First Officer", "Cabin"} |->
                               IF k = "Cabin" THEN DefaultDailyCabin ELSE DefaultDailyPilot],
     weekly_max_duty_hrs_default |-> DefaultWeeklyHours,
     min_rest_hours_between_duties |-> min_rest_hours,
     max_overnight_duties_per_week |-> DefaultMaxOvernight,
     turnaround_minutes |-> DefaultTurnaround,
     night_duty_window |-> <<DefaultNightStart, DefaultNightEnd>>,
     max_consecutive_night_duties |-> DefaultMaxConsecutiveNights,
     wocl_window |-> <<DefaultWoclStart, DefaultWoclEnd>>,
     hours_7_days |-> DefaultFt7Hours,
     experience_min_months |-> DefaultExpMinMonths,
     min_sccm_ulh |-> DefaultMinSccmUlh,
     ulh_ft_threshold_hours |-> DefaultUlhHours]

\* overlaps_with_turnaround(a_start, a_end, b_start, b_end, turnaround_minutes)
overlaps_with_turnaround(a_start, a_end, b_start, b_end, turnaround_minutes) ==
    LET a_end_pad == a_end + turnaround_minutes
        b_end_pad == b_end + turnaround_minutes
    IN ~(a_end_pad <= b_start \/ b_end_pad <= a_start)

in_window(t, start_local, end_local) ==
    IF start_local > end_local
    THEN t >= start_local \/ t < end_local
    ELSE start_local <= t /\ t < end_local

in_night_window(dep, arr, start_local, end_local) ==
    \/ in_window(TimeOf(dep), start_local, end_local)
    \/ in_window(TimeOf(arr), start_local, end_local)
    \/ (start_local > end_local /\ DateOf(dep) # DateOf(arr))

daily_cap_for_role(r, role_norm) ==
    IF role_norm = "CC" THEN r.daily_max_duty_hrs["Cabin"]
    ELSE IF role_norm = "SC"
         THEN (IF "Senior Cabin" \in DOMAIN r.daily_max_duty_hrs
               THEN r.daily_max_duty_hrs["Senior Cabin"]
               ELSE r.daily_max_duty_hrs["Cabin"])
    ELSE IF role_norm = "FO" THEN r.daily_max_duty_hrs["First Officer"]
    ELSE r.daily_max_duty_hrs["Captain"]

\* loader.py: sorted({f.dep_dt.date() for f in flights})
operating_days(fl) == {DateOf(fl[k].dep_dt) : k \in 1..Len(fl)}

CrewById(cr, cid) == CHOOSE c \in Range(cr) : c.crew_id = cid

-----------------------------------------------------------------------------
(* constraints.py: build_model_with_constraints.  A key of x is the tuple   *)
(* <<crew_id, flight_id, role, slot_index>>; S is the set of keys whose     *)
(* variable is 1.  Each constraint group is the predicate on S that the     *)
(* solver enforces.                                                          *)

\* x = {}, filled in the order of elig.eligible (a dict: a repeated key is kept once)
DecisionKeys(elig) == Dedupe(elig)

KeysOfCrew(xs, c) == SelectSeq(xs, LAMBDA t : t[1] = c)

\* the distinct flights of crew c in x, in the order of their first key
CrewFlightIds(xs, c) ==
    LET ks == KeysOfCrew(xs, c)
    IN Dedupe([k \in 1..Len(ks) |-> ks[k][2]])

DepKey(fl) == [fid \in {fl[k].flight_id : k \in 1..Len(fl)} |-> FlightById(fl, fid).dep_dt]

\* for each RoleSlot the sum of its variables == 1
\* coverage relaxed to "at most one per seat"
CoverageAtMostOne(S, xs, rs) ==
    \A i \in 1..Len(rs) :
        Cardinality({t \in S : t[2] = rs[i].flight_id /\ t[3] = rs[i].role
                                  /\ t[4] = rs[i].slot_index}) <= 1

CoverageConstraint(S, xs, rs) ==
    \A k \in 1..Len(rs) :
        Cardinality({t \in S : t[2] = rs[k].flight_id /\ t[3] = rs[k].role
                                 /\ t[4] = rs[k].slot_index}) = 1

\* for each (crew, flight) the sum of that pair's variables <= 1
AtMostOneSeatConstraint(S, xs, cr) ==
    \A c \in {cr[k].crew_id : k \in 1..Len(cr)} :
        \A f \in {t[2] : t \in {u \in Range(xs) : u[1] = c}} :
            Cardinality({t \in S : t[1] = c /\ t[2] = f}) <= 1

\* the variables of flight f held by SCCM-qualified crew: every Senior Crew
\* seat, and the Cabin Crew seats of certified crew with the experience
sccm_vars(xs, f, cr, r) ==
    {t \in Range(xs) : t[2] = f.flight_id /\ t[3] = "SC"}
      \cup {t \in Range(xs) :
              /\ t[2] = f.flight_id /\ t[3] = "CC"
              /\ CrewById(cr, t[1]).sccm_certified
              /\ CrewById(cr, t[1]).experience_months >= r.experience_min_months}

\* req = 1, or max(req, min_sccm_ulh) on a flight longer than the ULH threshold
sccm_req(f, r) ==
    IF (f.arr_dt - f.dep_dt) > 60 * r.ulh_ft_threshold_hours
    THEN (IF r.min_sccm_ulh > 1 THEN r.min_sccm_ulh ELSE 1) ELSE 1

\* SCCM presence on flights with more than one cabin seat
SccmConstraint(S, xs, fl, cr, r) ==
    \A k \in 1..Len(fl) :
        (fl[k].needed_cc + fl[k].needed_sc > 1 /\ sccm_vars(xs, fl[k], cr, r) # {})
           => Cardinality(S \cap sccm_vars(xs, fl[k], cr, r)) >= sccm_req(fl[k], r)

\* the optional interval of a key: [dep, dep + duration + turnaround)
IntervalStart(fl, t) == FlightById(fl, t[2]).dep_dt

\* mutant of IntervalEnd: the end is not padded by the turnaround
IntervalEndUnpadded(fl, r, t) == FlightById(fl, t[2]).arr_dt

IntervalEnd(fl, r, t) ==
    LET f == FlightById(fl, t[2])
        size == (f.arr_dt - f.dep_dt) + r.turnaround_minutes
    IN f.dep_dt + size

\* AddNoOverlap over each crew's intervals: the present ones are disjoint
NoOverlapConstraint(S, xs, fl, r) ==
    \A t1 \in S, t2 \in S :
        (t1 # t2 /\ t1[1] = t2[1])
            => \/ IntervalEnd(fl, r, t1) <= IntervalStart(fl, t2)
               \/ IntervalEnd(fl, r, t2) <= IntervalStart(fl, t1)

\* var1 + var2 <= 1 for every variable of (c, f1) and every variable of (c, f2)
MutuallyExclusive(S, c, f1, f2) ==
    ~(/\ \E t \in S : t[1] = c /\ t[2] = f1
      /\ \E t \in S : t[1] = c /\ t[2] = f2)

\* minimum rest: adjacent flights, by departure, among the crew's potential flights
MinRestConstraint(S, xs, fl, r) ==
    \A c \in {t[1] : t \in Range(xs)} :
        LET sorted_flights == SortByKey(CrewFlightIds(xs, c), DepKey(fl))
        IN \A i \in 1..(Len(sorted_flights) - 1) :
              LET f1 == FlightById(fl, sorted_flights[i])
                  f2 == FlightById(fl, sorted_flights[i + 1])
                  rest_time_available == f2.dep_dt - f1.arr_dt
              IN rest_time_available < r.min_rest_hours_between_duties * 60
                    => MutuallyExclusive(S, c, f1.flight_id, f2.flight_id)

KeyDepKey(fl, ks) == [t \in Range(ks) |-> FlightById(fl, t[2]).dep_dt]

RECURSIVE ConsecutiveRun(_, _, _, _, _)
\* the inner loop over j: keys of consecutive dates starting at index j
ConsecutiveRun(fl, ns, j, jmax, current_date) ==
    IF j > jmax THEN <<>>
    ELSE IF DateOf(FlightById(fl, ns[j][2]).dep_dt) = current_date
         THEN <<ns[j]>> \o ConsecutiveRun(fl, ns, j + 1, jmax, current_date + 1)
         ELSE <<>>

\* weekly night-duty limit and consecutive-night limit
NightConstraint(S, xs, fl, cr, r) ==
    \A c \in {cr[k].crew_id : k \in 1..Len(cr)} :
        LET night_assignments ==
                SelectSeq(KeysOfCrew(xs, c), LAMBDA t :
                    in_night_window(FlightById(fl, t[2]).dep_dt, FlightById(fl, t[2]).arr_dt,
                                    r.night_duty_window[1], r.night_duty_window[2]))
            K == r.max_consecutive_night_duties
            ns == SortByKey(night_assignments, KeyDepKey(fl, night_assignments))
            n == Len(ns)
        IN /\ Cardinality(S \cap Range(night_assignments)) <= r.max_overnight_duties_per_week
           /\ n >= K =>
                \A i \in 1..(n - K + 1) :
                    LET jmax == IF i + K < n THEN i + K ELSE n
                        run == ConsecutiveRun(fl, ns, i, jmax,
                                              DateOf(FlightById(fl, ns[i][2]).dep_dt))
                    IN Len(run) >= K => Cardinality(S \cap Range(run)) <= K

KeyMinutes(fl) ==
    [fid \in {fl[k].flight_id : k \in 1..Len(fl)} |-> minutes_by_flight(fl, fid)]

\* sum of the minutes of the chosen keys in T
ChosenMinutes(S, T, fl) ==
    LET m == [t \in S \cap T |-> KeyMinutes(fl)[t[2]]] IN SetSum(S \cap T, m)

wocl_len_minutes(r) ==
    LET w_s == r.wocl_window[1]
        w_e == r.wocl_window[2]
    IN IF w_e >= w_s THEN w_e - w_s ELSE 24 * 60 - (w_s - w_e)

Min(a, b) == IF a <= b THEN a ELSE b
Max(a, b) == IF a >= b THEN a ELSE b

\* the keys of crew c on operating day d
DayKeys(xs, fl, c, d) ==
    {t \in Range(xs) : t[1] = c /\ day_by_flight(fl, t[2]) = d}

\* bracket indicators that are one-hot and bound to nothing
unbound_indicators(dvar) ==
    {b \in [{"b_le_8", "b_8_11", "b_gt_11"} -> BOOLEAN] :
        Cardinality({n \in DOMAIN b : b[n]}) = 1}

\* the values the solver can give b_le_8, b_8_11 and b_gt_11 for the day's
\* minutes: their sum is 1 and each reified bound holds
bracket_indicators(dvar) ==
    {b \in [{"b_le_8", "b_8_11", "b_gt_11"} -> BOOLEAN] :
        /\ Cardinality({n \in DOMAIN b : b[n]}) = 1
        /\ b["b_le_8"] => dvar <= 8 * 60
        /\ ~b["b_le_8"] => dvar >= 8 * 60 + 1
        /\ b["b_8_11"] => (dvar >= 8 * 60 + 1 /\ dvar <= 11 * 60)
        /\ ~b["b_gt_11"] => dvar <= 11 * 60
        /\ b["b_gt_11"] => dvar >= 11 * 60 + 1}

\* the landings the FDP table allows for the day's minutes
LandingsCap(dvar) ==
    IF dvar <= 8 * 60 THEN 6 ELSE IF dvar <= 11 * 60 THEN 3 ELSE 1

\* daily cap by role, landings by FDP bracket, WOCL reduction
DailyConstraint(S, xs, fl, cr, r) ==
    \A k \in 1..Len(cr) : \A d \in operating_days(fl) :
        LET c == cr[k]
            T == DayKeys(xs, fl, c.crew_id, d)
            dvar == ChosenMinutes(S, T, fl)
            fcnt == Cardinality(S \cap T)
            daily_cap_minutes == daily_cap_for_role(r, role_key(c.role)) * 60
            start_wocl_count ==
                Cardinality({t \in S \cap T :
                    in_window(TimeOf(FlightById(fl, t[2]).dep_dt),
                              r.wocl_window[1], r.wocl_window[2])})
            overlap_wocl_count ==
                Cardinality({t \in S \cap T :
                    in_night_window(FlightById(fl, t[2]).dep_dt, FlightById(fl, t[2]).arr_dt,
                                    r.wocl_window[1], r.wocl_window[2])})
            red_full == Min(daily_cap_minutes, wocl_len_minutes(r))
            red_half == Min(daily_cap_minutes, wocl_len_minutes(r) \div 2)
        IN /\ dvar <= 1000000
           /\ dvar <= daily_cap_minutes
           /\ fcnt <= 6
           /\ \E b \in bracket_indicators(dvar) :
                 /\ b["b_le_8"] => fcnt <= 6
                 /\ b["b_8_11"] => fcnt <= 3
                 /\ b["b_gt_11"] => fcnt <= 1
           /\ start_wocl_count >= 1 => dvar <= daily_cap_minutes - red_full
           /\ overlap_wocl_count >= 1 => dvar <= daily_cap_minutes - red_half

minutes_total(S, fl, c) == ChosenMinutes(S, {t \in S : t[1] = c}, fl)

\* a missing weekly_max_duty_hrs (None) is a negative number here
weekly_cap_minutes(r, c) ==
    (IF c.weekly_max_duty_hrs >= 0 THEN c.weekly_max_duty_hrs
     ELSE r.weekly_max_duty_hrs_default) * 60

\* overtime is a slack variable (ot >= tot - cap); the 7-day flight time is capped
WeeklyConstraint(S, xs, fl, cr, r) ==
    \A k \in 1..Len(cr) :
        /\ minutes_total(S, fl, cr[k].crew_id) <= 10000000
        /\ minutes_total(S, fl, cr[k].crew_id) <= r.hours_7_days * 60

\* location continuity: adjacent flights, by departure, among the crew's potential flights
ContinuityConstraint(S, xs, fl, cr) ==
    \A c \in {cr[k].crew_id : k \in 1..Len(cr)} :
        LET crew_fids == SortByKey(CrewFlightIds(xs, c), DepKey(fl))
        IN \A i \in 1..(Len(crew_fids) - 1) :
              LET f1 == FlightById(fl, crew_fids[i])
                  f2 == FlightById(fl, crew_fids[i + 1])
              IN f1.arr_airport # f2.dep_airport
                    => MutuallyExclusive(S, c, f1.flight_id, f2.flight_id)

\* every constraint of build_model_with_constraints (the base-return penalty
\* variable is free above its lower bound and never restricts S)
ConstraintsHold(S, xs, rs, fl, cr, r) ==
    /\ CoverageConstraint(S, xs, rs)
    /\ AtMostOneSeatConstraint(S, xs, cr)
    /\ SccmConstraint(S, xs, fl, cr, r)
    /\ NoOverlapConstraint(S, xs, fl, r)
    /\ MinRestConstraint(S, xs, fl, r)
    /\ NightConstraint(S, xs, fl, cr, r)
    /\ DailyConstraint(S, xs, fl, cr, r)
    /\ WeeklyConstraint(S, xs, fl, cr, r)
    /\ ContinuityConstraint(S, xs, fl, cr)

-----------------------------------------------------------------------------
(* objective.py: add_objective *)

sum_totals(S, fl, cr) ==
    SeqSum([k \in 1..Len(cr) |-> minutes_total(S, fl, cr[k].crew_id)])

\* AddMultiplicationEquality(sum_totals, [avg_minutes, n]): an integer average exists
FairnessConstraint(S, fl, cr) ==
    LET n == Max(1, Len(cr))
    IN \E avg_minutes \in 0..sum_totals(S, fl, cr) : avg_minutes * n = sum_totals(S, fl, cr)

\* the assignments the solver may return for the model
Feasible(S, xs, rs, fl, cr, r, with_objective) ==
    /\ ConstraintsHold(S, xs, rs, fl, cr, r)
    /\ with_objective => FairnessConstraint(S, fl, cr)

Solutions(xs, rs, fl, cr, r, with_objective) ==
    {S \in SUBSET Range(xs) : Feasible(S, xs, rs, fl, cr, r, with_objective)}

-----------------------------------------------------------------------------
(* objective.py: the value the solver minimizes.  Every auxiliary variable *)
(* (overtime, deviations, base-return penalty) sits at its least value.    *)

W_OT == 100
W_FAIR == 10
W_PREF == 1
W_BASE == 50

Abs(a) == IF a >= 0 THEN a ELSE -a

overtime_sum(S, fl, cr, r) ==
    SeqSum([k \in 1..Len(cr) |->
        Max(0, minutes_total(S, fl, cr[k].crew_id) - weekly_cap_minutes(r, cr[k]))])

fairness_sum(S, fl, cr) ==
    LET avg_minutes == sum_totals(S, fl, cr) \div Max(1, Len(cr))
    IN SeqSum([k \in 1..Len(cr) |-> Abs(minutes_total(S, fl, cr[k].crew_id) - avg_minutes)])

\* constraints.py: _add_base_return_constraints.  The decision keys of crew c
\* on day d that the penalty of (c, d) is built from, sorted by departure
base_day_flights(xs, fl, c, d) ==
    LET day_keys == SelectSeq(KeysOfCrew(xs, c.crew_id), LAMBDA t :
                        /\ day_by_flight(fl, t[2]) = d
                        /\ t[3] \in {"Captain", "FO"})
    IN IF role_key(c.role) \notin {"Captain", "FO"} THEN <<>>
       ELSE SortByKey(day_keys, KeyDepKey(fl, day_keys))

\* the least value the constraints leave to base_penalty[c, d] (a variable that
\* exists when base_day_flights is not empty): away_from_base_penalty >=
\* last_var * 100 when the last flight of the list arrives away from base,
\* away_from_base_penalty == 0 when it arrives at base
least_base_penalty(S, xs, fl, c, d) ==
    LET day_flights == base_day_flights(xs, fl, c, d)
        last_var == day_flights[Len(day_flights)]
    IN IF day_flights = <<>> THEN 0
       ELSE IF FlightById(fl, last_var[2]).arr_airport # c.base /\ last_var \in S
            THEN 100 ELSE 0

base_return_sum(S, xs, fl, cr) ==
    SeqSum([k \in 1..Len(cr) |->
        SetSum(operating_days(fl),
               [d \in operating_days(fl) |-> least_base_penalty(S, xs, fl, cr[k], d)])])

\* the scenarios carry no preference rows (bundle.prefs = {}): no penalty term
pref_sum(S) == 0

ObjectiveValue(S, xs, fl, cr, r) ==
      W_OT * overtime_sum(S, fl, cr, r)
    + W_FAIR * fairness_sum(S, fl, cr)
    + W_PREF * pref_sum(S)
    + W_BASE * base_return_sum(S, xs, fl, cr)

-----------------------------------------------------------------------------
(* app.py: _run_ortools_optimization, up to the solver's answer *)

ExactIdle ==
    /\ rules = RulesWith(DefaultMinRestHours)
    /\ x = <<>>
    /\ has_objective = FALSE
    /\ chosen = {}
    /\ status = ""
    /\ xpc = "idle"
    /\ exact_result = <<>>

\* artifacts = build_model_with_constraints(bundle=data, elig=elig)
BuildModel ==
    /\ epc = "built"
    /\ xpc = "idle"
    /\ x' = DecisionKeys(eligible)
    /\ xpc' = "model"
    /\ UNCHANGED <<rules, has_objective, chosen, status, exact_result>>
    /\ UNCHANGED <<eligVars, gaVars, appVars, apiVars, stab>>

\* add_objective(bundle=data, elig=elig, art=artifacts, weights=w)
AddObjective ==
    /\ xpc = "model"
    /\ has_objective' = TRUE
    /\ xpc' = "objective"
    /\ UNCHANGED <<rules, x, chosen, status, exact_result>>
    /\ UNCHANGED <<eligVars, gaVars, appVars, apiVars, stab>>

\* status_code = solver.Solve(artifacts.model): an assignment that satisfies the
\* model (OPTIMAL when it minimizes the objective), INFEASIBLE when there is
\* none, UNKNOWN when the time limit ends the search without an answer
Solve ==
    /\ xpc = "objective"
    /\ LET sols == Solutions(x, role_slots, flights, crew, rules, has_objective)
           best(S) == \A U \in sols : ObjectiveValue(S, x, flights, crew, rules)
                                        <= ObjectiveValue(U, x, flights, crew, rules)
       IN \/ \E S \in sols :
               /\ chosen' = S
               /\ status' = IF best(S) THEN "OPTIMAL" ELSE "FEASIBLE"
          \/ /\ sols = {}
             /\ chosen' = {}
             /\ status' = "INFEASIBLE"
          \/ /\ chosen' = {}
             /\ status' = "UNKNOWN"
    /\ xpc' = "solved"
    /\ UNCHANGED <<rules, x, has_objective, exact_result>>
    /\ UNCHANGED <<eligVars, gaVars, appVars, apiVars, stab>>

\* a solution of the exact model has been read back
Solved == xpc = "solved" /\ status \in {"OPTIMAL", "FEASIBLE"}

\* round(100.0 * covered / max(1, total), 2), in hundredths of a percent, ties to even
coverage_pct(covered, total) ==
    LET t == Max(1, total)
        q == (10000 * covered) \div t
        r == (10000 * covered) % t
    IN IF 2 * r > t \/ (2 * r = t /\ q % 2 = 1) THEN q + 1 ELSE q

\* the exception left to propagate to the caller
Reraise(e) == [raised |-> e]

\* run_optimization, "except Exception as e": the failure record
except_Exception(e) == [success |-> FALSE, error |-> e]

\* the rest of _run_ortools_optimization: the status is not looked at; the
\* keys are read back with solver.Value(var), and the result is success with
\* the assignments and the KPIs (status, total_role_slots, covered_slots,
\* coverage_pct), the KPIs being fields of the one record here.
\* Without a solution (any status but OPTIMAL and FEASIBLE) the first
\* solver.Value either raises, and run_optimization answers its failure
\* record with the exception's text, or reads 0 for every variable, depending
\* on the solver build; with no decision variable nothing is read.
ExtractResults ==
    /\ xpc = "solved"
    /\ IF status \in {"OPTIMAL", "FEASIBLE"}
       THEN exact_result' =
               [success |-> TRUE, assignments |-> chosen, status |-> status,
                total_role_slots |-> Len(role_slots),
                covered_slots |-> Cardinality(chosen),
                coverage_pct |-> coverage_pct(Cardinality(chosen), Len(role_slots))]
       ELSE \/ exact_result' =
                  [success |-> TRUE, assignments |-> {}, status |-> status,
                   total_role_slots |-> Len(role_slots), covered_slots |-> 0,
                   coverage_pct |-> coverage_pct(0, Len(role_slots))]
            \/ /\ x # <<>>
               /\ exact_result' = except_Exception("solver.Value")
    /\ xpc' = "returned"
    /\ UNCHANGED <<rules, x, has_objective, chosen, status>>
    /\ UNCHANGED <<eligVars, gaVars, appVars, apiVars, stab>>

-----------------------------------------------------------------------------
(* genetic_optimizer.py.  An Assignment is <<crew_id, flight_id, role>>, a  *)
(* solution a sequence of assignments.  A fitness is a whole number of      *)
(* thousandths; float('-inf') is NegInf, below every finite fitness.        *)

NegInf == -1

\* GAConfig and the weights the handlers pass when the request names none
W_CONTINUITY == 75
W_STABILITY == 1200

\* _parse_qualified_types: split on "|" when the string holds one, else on ",";
\* empty pieces are dropped
_parse_qualified_types(q) ==
    LET pieces == IF "|" \in Range(q) THEN Split(q, "|") ELSE Split(q, ",")
    IN SelectSeq(pieces, LAMBDA p : p # <<>>)

\* load_data: one Crew per row of the crew table
LoadCrewRow(row) ==
    [crew_id |-> row.crew_id, role |-> row.role, base |-> row.base,
     qualified_types |-> _parse_qualified_types(row.qualified_types),
     weekly_max_duty_hrs |-> row.weekly_max_duty_hrs,
     available |-> (row.leave_status = "Available"),
     sccm_certified |-> row.sccm_certified,
     experience_months |-> row.experience_months]

IsLoaded(fl, fid) == \E k \in 1..Len(fl) : fl[k].flight_id = fid

HasCrew(cr, cid) == \E k \in 1..Len(cr) : cr[k].crew_id = cid

\* flight.aircraft_type in crew.qualified_types
GaQualified(c, f) == <<f.aircraft_type>> \in Range(c.qualified_types)

RECURSIVE KeepChain(_, _, _)
\* the loop over flist in _repair_solution_continuity: the flight ids kept for
\* one crew, last_arr = "" standing for None
KeepChain(fl, flist, last_arr) ==
    IF flist = <<>> THEN {}
    ELSE LET f == FlightById(fl, Head(flist))
         IN IF last_arr = "" \/ f.dep_airport = last_arr
            THEN {f.flight_id} \cup KeepChain(fl, Tail(flist), f.arr_airport)
            ELSE KeepChain(fl, Tail(flist), last_arr)

\* repair that keeps every assignment
RepairNothing(fl, solution) == solution

_repair_solution_continuity(fl, solution) ==
    IF solution = <<>> THEN solution
    ELSE
    LET by_cf == Dedupe([i \in 1..Len(solution) |-> <<solution[i][1], solution[i][2]>>])
        crews == Dedupe([i \in 1..Len(by_cf) |-> by_cf[i][1]])
        flights_for_crew(c) ==
            LET mine == SelectSeq(by_cf, LAMBDA p : p[1] = c /\ IsLoaded(fl, p[2]))
            IN [i \in 1..Len(mine) |-> mine[i][2]]
        dep == [fid \in {fl[k].flight_id : k \in 1..Len(fl)} |-> FlightById(fl, fid).dep_dt]
        kept_pairs ==
            UNION {{<<crews[i], fid>> :
                        fid \in KeepChain(fl, SortByKey(flights_for_crew(crews[i]), dep), "")}
                   : i \in 1..Len(crews)}
    IN Concat([k \in 1..Len(by_cf) |->
            IF by_cf[k] \in kept_pairs
            THEN SelectSeq(solution, LAMBDA a : <<a[1], a[2]>> = by_cf[k])
            ELSE <<>>])

\* create_random_solution: the crew lists per role and the seats of one flight,
\* each seat with the assignments random.choice can produce
RoleGroups ==
    << [roles |-> {"Captain", "CPT"}, label |-> "Captain", need |-> "needed_captains"],
       [roles |-> {"First Officer", "FO"}, label |-> "First Officer", need |-> "needed_fo"],
       [roles |-> {"Senior Crew", "Senior Cabin", "SC"}, label |-> "Senior Crew", need |-> "needed_sc"],
       [roles |-> {"Cabin Crew", "CC"}, label |-> "Cabin Crew", need |-> "needed_cc"] >>

SeatChoices(cr, f, g) ==
    {<<cr[k].crew_id, f.flight_id, g.label>> :
        k \in {j \in 1..Len(cr) : /\ cr[j].role \in g.roles
                                   /\ cr[j].available
                                   /\ GaQualified(cr[j], f)}}

FlightSeats(cr, f) ==
    Concat([gi \in 1..Len(RoleGroups) |->
        [i \in 1..f[RoleGroups[gi].need] |-> SeatChoices(cr, f, RoleGroups[gi])]])

RECURSIVE PickEach(_)
\* the sequences that take one element from each non-empty set of opts, in order
PickEach(opts) ==
    IF opts = <<>> THEN {<<>>}
    ELSE IF Head(opts) = {} THEN PickEach(Tail(opts))
    ELSE {<<h>> \o t : h \in Head(opts), t \in PickEach(Tail(opts))}

create_random_solution(fl, cr) ==
    {_repair_solution_continuity(fl, raw) :
        raw \in PickEach(Concat([k \in 1..Len(fl) |-> FlightSeats(cr, fl[k])]))}

\* set_baseline without the exclusion filter
BaselineUnfiltered(baseline_assignments, excl_crew, excl_flights) ==
    Range(baseline_assignments)

\* set_baseline: the (crew, flight, role) triples of the baseline that name no
\* excluded crew and no excluded flight
set_baseline(baseline_assignments, excl_crew, excl_flights) ==
    {a \in Range(baseline_assignments) : a[1] \notin excl_crew /\ a[2] \notin excl_flights}

RECURSIVE SeedAlong(_, _, _, _)
\* _build_seed_from_baseline over the pairs in the order the set yields them
SeedAlong(fl, cr, order, used_crew) ==
    IF order = <<>> THEN <<>>
    ELSE LET a == Head(order)
             ok == /\ a[1] \notin used_crew
                   /\ HasCrew(cr, a[1])
                   /\ IsLoaded(fl, a[2])
                   /\ CrewById(cr, a[1]).available
                   /\ a[3] = CrewById(cr, a[1]).role
                   /\ GaQualified(CrewById(cr, a[1]), FlightById(fl, a[2]))
         IN IF ok THEN <<a>> \o SeedAlong(fl, cr, Tail(order), used_crew \cup {a[1]})
            ELSE SeedAlong(fl, cr, Tail(order), used_crew)

RECURSIVE Orders(_)
\* the orders in which iterating a set can yield its elements
Orders(S) ==
    IF S = {} THEN {<<>>}
    ELSE UNION {{<<e>> \o t : t \in Orders(S \ {e})} : e \in S}

_build_seed_from_baseline(fl, cr, pairs) ==
    {SeedAlong(fl, cr, order, {}) : order \in Orders(pairs)}

\* the flights of the assignments of crew c, one entry per assignment
ScheduleOf(fl, solution, c) ==
    LET mine == SelectSeq(solution, LAMBDA a : a[1] = c /\ IsLoaded(fl, a[2]))
        ids == [i \in 1..Len(mine) |-> mine[i][2]]
        dep == [fid \in Range(ids) |-> FlightById(fl, fid).dep_dt]
    IN SortByKey(ids, dep)

CrewsOf(solution) == {solution[i][1] : i \in 1..Len(solution)}

duration_min(fl, fid) == FlightById(fl, fid).arr_dt - FlightById(fl, fid).dep_dt

\* crew_hours of the penalty functions, in minutes
crew_minutes(fl, solution, c) ==
    SeqSum([i \in 1..Len(solution) |->
        IF solution[i][1] = c THEN duration_min(fl, solution[i][2]) ELSE 0])

CabinPositionsOnly(fl) ==
    SeqSum([k \in 1..Len(fl) |-> fl[k].needed_cc])

total_required_positions(fl) ==
    SeqSum([k \in 1..Len(fl) |-> fl[k].needed_captains + fl[k].needed_fo
                                   + fl[k].needed_sc + fl[k].needed_cc])

\* 1000 * min(1.0, len(solution) / total_required_positions), in thousandths
coverage_term(fl, solution) ==
    IF Len(solution) >= total_required_positions(fl) THEN 1000000
    ELSE (1000000 * Len(solution)) \div total_required_positions(fl)

\* _calculate_overtime_penalty, in minutes
_calculate_overtime_penalty(fl, cr, solution) ==
    SetSum(CrewsOf(solution),
           [c \in CrewsOf(solution) |->
               Max(0, crew_minutes(fl, solution, c) - 60 * CrewById(cr, c).weekly_max_duty_hrs)])

RECURSIVE Gcd(_, _)
Gcd(a, b) == IF b = 0 THEN a ELSE Gcd(b, a % b)

RECURSIVE SetGcd(_, _)
SetGcd(S, w) ==
    IF S = {} THEN 0
    ELSE LET e == CHOOSE y \in S : TRUE IN Gcd(w[e], SetGcd(S \ {e}, w))

RECURSIVE IsqrtBetween(_, _, _)
\* the largest r in lo..hi with r * r <= n
IsqrtBetween(n, lo, hi) ==
    IF lo >= hi THEN lo
    ELSE LET mid == (lo + hi + 1) \div 2
         IN IF mid * mid <= n THEN IsqrtBetween(n, mid, hi)
            ELSE IsqrtBetween(n, lo, mid - 1)

Isqrt(n) == IsqrtBetween(n, 0, 46340)

\* _calculate_fairness_score = max(0, 1 - std / mean) of the crew hours, in
\* thousandths.  std / mean = sqrt(n * sum(h^2) - sum(h)^2) / sum(h), which does
\* not change when every h is divided by their common divisor.
_calculate_fairness_score(fl, solution) ==
    LET cs == CrewsOf(solution)
        m == [c \in cs |-> crew_minutes(fl, solution, c)]
        g == SetGcd(cs, m)
        h == [c \in cs |-> IF g = 0 THEN 0 ELSE m[c] \div g]
        sum_h == SetSum(cs, h)
        sum_sq == SetSum(cs, [c \in cs |-> h[c] * h[c]])
        v == Cardinality(cs) * sum_sq - sum_h * sum_h
    IN IF cs = {} THEN 0
       ELSE IF sum_h = 0 THEN 1000
       ELSE Max(0, 1000 - (Isqrt(v * 1000000) \div sum_h))

\* 100 for every flight of a crew's schedule that does not depart from where the
\* one before it arrived
continuity_penalty(fl, solution) ==
    SetSum(CrewsOf(solution),
           [c \in CrewsOf(solution) |->
               LET fs == ScheduleOf(fl, solution, c)
               IN 100 * Cardinality({i \in 2..Len(fs) :
                        FlightById(fl, fs[i - 1]).arr_airport # FlightById(fl, fs[i]).dep_airport})])

\* 1 for every day a crew's latest-arriving flight ends away from its base
base_return_penalty(fl, cr, solution) ==
    SetSum(CrewsOf(solution),
           [c \in CrewsOf(solution) |->
               IF ~HasCrew(cr, c) THEN 0
               ELSE LET fs == ScheduleOf(fl, solution, c)
                        days == {DateOf(FlightById(fl, fs[i]).dep_dt) : i \in 1..Len(fs)}
                        last_flight(d) ==
                            LET idx == {i \in 1..Len(fs) : DateOf(FlightById(fl, fs[i]).dep_dt) = d}
                                top == CHOOSE i \in idx :
                                         /\ \A j \in idx : FlightById(fl, fs[j]).arr_dt
                                                              <= FlightById(fl, fs[i]).arr_dt
                                         /\ \A j \in idx : (j < i) =>
                                                FlightById(fl, fs[j]).arr_dt < FlightById(fl, fs[i]).arr_dt
                            IN FlightById(fl, fs[top])
                    IN Cardinality({d \in days : last_flight(d).arr_airport # CrewById(cr, c).base})])

\* kept / max(1, len(baseline_pairs)) times w_stability, in thousandths
stability_term(solution, pairs, w_stability) ==
    IF pairs = {} THEN 0
    ELSE (1000 * w_stability * Cardinality(Range(solution) \cap pairs)) \div Cardinality(pairs)

evaluate_fitness(fl, cr, pairs, w_stability, solution) ==
    IF solution = <<>> \/ total_required_positions(fl) = 0 THEN NegInf
    ELSE Max(100,
               coverage_term(fl, solution)
             - (100 * W_OT * _calculate_overtime_penalty(fl, cr, solution)) \div 60
             + (W_FAIR * _calculate_fairness_score(fl, solution)) \div 10
             - 10 * W_CONTINUITY * continuity_penalty(fl, solution)
             - 10 * W_BASE * base_return_penalty(fl, cr, solution)
             + stability_term(solution, pairs, w_stability))

\* the first index, whatever the scores
ArgFirst(scores) == 1

\* np.argmax: the first index of the greatest score
ArgMax(scores) ==
    CHOOSE i \in 1..Len(scores) :
        /\ \A j \in 1..Len(scores) : scores[j] <= scores[i]
        /\ \A j \in 1..(i - 1) : scores[j] < scores[i]

\* np.argsort(fitness_scores)[:elite_size]: the least fit come first
LeastFitIndexLists(scores, elite_size) ==
    LET n == IF elite_size > Len(scores) THEN Len(scores) ELSE elite_size
    IN {e \in [1..n -> 1..Len(scores)] :
            /\ \A i, j \in 1..n : (i < j) => (e[i] # e[j] /\ scores[e[i]] <= scores[e[j]])
            /\ \A k \in 1..Len(scores) :
                   (k \notin Range(e)) => \A i \in 1..n : scores[k] >= scores[e[i]]}

\* np.argsort(fitness_scores)[-elite_size:]: index lists, ascending by score,
\* of elite_size individuals no other individual beats; equal scores in any order
EliteIndexLists(scores, elite_size) ==
    LET n == IF elite_size > Len(scores) THEN Len(scores) ELSE elite_size
    IN {e \in [1..n -> 1..Len(scores)] :
            /\ \A i, j \in 1..n : (i < j) => (e[i] # e[j] /\ scores[e[i]] <= scores[e[j]])
            /\ \A k \in 1..Len(scores) :
                   (k \notin Range(e)) => \A i \in 1..n : scores[k] <= scores[e[i]]}

\* tournament_selection: the first of the greatest among the picked indices
tournament_selection(pop, scores, picks) ==
    LET sel == [i \in 1..Len(picks) |-> scores[picks[i]]]
    IN pop[picks[ArgMax(sel)]]

\* crossover: point = 0 stands for the branch that returns copies
crossover(parent1, parent2, point) ==
    IF point > 0 /\ Len(parent1) > 1 /\ Len(parent2) > 1
    THEN << SubSeq(parent1, 1, point) \o SubSeq(parent2, point + 1, Len(parent2)),
            SubSeq(parent2, 1, point) \o SubSeq(parent1, point + 1, Len(parent1)) >>
    ELSE << parent1, parent2 >>

CrossoverPoints(parent1, parent2) ==
    {0} \cup (IF Len(parent1) > 1 /\ Len(parent2) > 1
              THEN 1..(Min(Len(parent1), Len(parent2)) - 1) ELSE {})

\* mutate: the alternatives of position i, the assignment itself included
MutationChoices(fl, cr, a) ==
    {a} \cup {<<cr[k].crew_id, a[2], a[3]>> :
                k \in {j \in 1..Len(cr) : /\ cr[j].role = a[3]
                                           /\ cr[j].available
                                           /\ GaQualified(cr[j], FlightById(fl, a[2]))
                                           /\ cr[j].crew_id # a[1]}}

-----------------------------------------------------------------------------
(* GeneticOptimizer.optimize, run by _run_genetic_optimization for the      *)
(* /api/optimize and /api/reoptimize handlers                               *)

PopulationSize == 2
EliteSize == 1
TournamentSize == 2
Generations == 1
MaxMutations == 1
MaxRequests == 2

GaIdle ==
    /\ ga_flights = <<>>
    /\ ga_crew = <<>>
    /\ baseline_pairs = {}
    /\ exclude_crew = {}
    /\ exclude_flights = {}
    /\ population = <<>>
    /\ new_population = <<>>
    /\ fitness_scores = <<>>
    /\ best_solution = <<>>
    /\ best_fitness = NegInf
    /\ generation = 0
    /\ gpc = "idle"
    /\ ga_request = [kind |-> "", flight_disruptions |-> {}, crew_sickness |-> {}]
    /\ result = [success |-> FALSE]
    /\ requests_done = 0
    /\ over_time = FALSE

AppIdle ==
    /\ baseline_roster = <<>>
    /\ current_roster = <<>>

MaxJobs == 3

MaxHandlers == 2

ApiIdle ==
    /\ optimization_jobs = <<>>
    /\ api_pc = "idle"
    /\ api_kind = ""
    /\ attempts = <<>>
    /\ api_result = [success |-> FALSE]
    /\ api_response = [code |-> 0]
    /\ handlers = [h \in 1..MaxHandlers |->
                      [pc |-> "idle", kind |-> "", job |-> 0, baseline_assignments |-> {},
                       result |-> [success |-> FALSE, assignments |-> {}],
                       response |-> [code |-> 0]]]

\* _run_genetic_optimization, "Apply crew sickness": every crew the sickness
\* file names is removed
ApplySickness(crew_df, sick_ids) ==
    SelectSeq(crew_df, LAMBDA c : c.crew_id \notin sick_ids)

\* _run_genetic_optimization, "Apply flight disruptions": a disruption is
\* <<flight_id, type, delay_minutes>>; rows are applied one after another
ApplyDisruption(flights_df, d) ==
    IF d[2] = "cancellation"
    THEN SelectSeq(flights_df, LAMBDA f : f.flight_id # d[1])
    ELSE IF d[2] = "delay" /\ d[3] # 0
    THEN [k \in 1..Len(flights_df) |->
            IF flights_df[k].flight_id = d[1]
            THEN [flights_df[k] EXCEPT !.dep_dt = @ + d[3], !.arr_dt = @ + d[3]]
            ELSE flights_df[k]]
    ELSE flights_df

RECURSIVE ApplyDisruptions(_, _)
\* the rows of one request name distinct flights, so their order does not matter
ApplyDisruptions(flights_df, ds) ==
    IF ds = {} THEN flights_df
    ELSE LET d == CHOOSE e \in ds : TRUE
         IN ApplyDisruptions(ApplyDisruption(flights_df, d), ds \ {d})

\* the data the optimizer is given for one request: load_data and set_baseline
LoadFor(req, baseline_assignments) ==
    /\ ga_flights' = ApplyDisruptions(flights, req.flight_disruptions)
    /\ ga_crew' = [k \in 1..Len(ApplySickness(crew, req.crew_sickness)) |->
                      LoadCrewRow(ApplySickness(crew, req.crew_sickness)[k])]
    /\ exclude_crew' = req.crew_sickness
    /\ exclude_flights' = {d[1] : d \in req.flight_disruptions}
    /\ baseline_pairs' = set_baseline(baseline_assignments, req.crew_sickness,
                                      {d[1] : d \in req.flight_disruptions})
    /\ ga_request' = req
    /\ population' = <<>>
    /\ new_population' = <<>>
    /\ fitness_scores' = <<>>
    /\ best_solution' = <<>>
    /\ best_fitness' = NegInf
    /\ generation' = 0
    /\ result' = [success |-> FALSE]
    /\ over_time' = FALSE
    /\ gpc' = "loaded"

\* POST /api/optimize: no baseline, no exclusions
OptimizeRequest ==
    /\ gpc = "idle"
    /\ requests_done = 0
    /\ LoadFor([kind |-> "optimize", flight_disruptions |-> {}, crew_sickness |-> {}], <<>>)
    /\ UNCHANGED <<requests_done, baseline_roster, current_roster>>
    /\ UNCHANGED <<eligVars, exactVars, apiVars, stab>>

\* what-if requests: F1 cancelled, C1 sick, both flights cancelled
ReoptimizeRequests ==
    { [kind |-> "reoptimize", flight_disruptions |-> {<<"F1", "cancellation", 0>>},
       crew_sickness |-> {}],
      [kind |-> "reoptimize", flight_disruptions |-> {}, crew_sickness |-> {"C1"}],
      [kind |-> "reoptimize",
       flight_disruptions |-> {<<"F1", "cancellation", 0>>, <<"F2", "cancellation", 0>>},
       crew_sickness |-> {}] }

\* POST /api/reoptimize: refused without a baseline roster; the baseline's
\* assignments and the disrupted flights and sick crew are handed to the optimizer
ReoptimizeRequest ==
    /\ gpc = "idle"
    /\ requests_done < MaxRequests
    /\ baseline_roster # <<>>
    /\ \E req \in ReoptimizeRequests :
          LoadFor(req, baseline_roster[1].assignments)
    /\ UNCHANGED <<requests_done, baseline_roster, current_roster>>
    /\ UNCHANGED <<eligVars, exactVars, apiVars, stab>>

\* create_initial_population: the repaired seed when there are baseline pairs,
\* then random solutions up to population_size
CreateInitialPopulation ==
    /\ gpc = "loaded"
    /\ \E seed \in (IF baseline_pairs # {}
                    THEN {<<_repair_solution_continuity(ga_flights, s)>> :
                            s \in _build_seed_from_baseline(ga_flights, ga_crew, baseline_pairs)}
                    ELSE {<<>>}) :
       \E rest \in [1..(PopulationSize - Len(seed)) -> create_random_solution(ga_flights, ga_crew)] :
          population' = seed \o rest
    /\ gpc' = "created"
    /\ UNCHANGED <<ga_flights, ga_crew, baseline_pairs, exclude_crew, exclude_flights,
                   new_population, fitness_scores, best_solution, best_fitness,
                   generation, ga_request, result, requests_done>>
    /\ UNCHANGED <<baseline_roster, current_roster, over_time>>
    /\ UNCHANGED <<eligVars, exactVars, apiVars, stab>>

Fitnesses(pop) ==
    [i \in 1..Len(pop) |-> evaluate_fitness(ga_flights, ga_crew, baseline_pairs,
                                             W_STABILITY, pop[i])]

\* a population all of whose individuals are kept
AllSolutions(pop) == pop

\* valid_solutions = [sol for sol in population if sol]
valid_solutions(pop) == SelectSeq(pop, LAMBDA sol : sol # <<>>)

\* optimize, from the validation of the initial population to the first best
EvaluateInitial ==
    /\ gpc = "created"
    /\ IF valid_solutions(population) = <<>>
       THEN /\ result' = [success |-> FALSE,
                          error |-> "Failed to generate any valid assignments"]
            /\ gpc' = "failed"
            /\ UNCHANGED <<fitness_scores, best_solution, best_fitness>>
       ELSE IF SelectSeq(Fitnesses(population), LAMBDA f : f > NegInf) = <<>>
       THEN /\ result' = [success |-> FALSE,
                          error |-> "Failed to calculate valid fitness scores"]
            /\ gpc' = "failed"
            /\ UNCHANGED <<fitness_scores, best_solution, best_fitness>>
       ELSE /\ fitness_scores' = Fitnesses(population)
            /\ best_solution' = population[ArgMax(Fitnesses(population))]
            /\ best_fitness' = Fitnesses(population)[ArgMax(Fitnesses(population))]
            /\ gpc' = "evolve"
            /\ UNCHANGED result
    /\ UNCHANGED <<ga_flights, ga_crew, baseline_pairs, exclude_crew, exclude_flights,
                   population, new_population, generation, ga_request, requests_done>>
    /\ UNCHANGED <<baseline_roster, current_roster, over_time>>
    /\ UNCHANGED <<eligVars, exactVars, apiVars, stab>>

\* what mutate can return: up to MaxMutations positions take another crew of the
\* same role, then the repair
mutate(fl, cr, solution) ==
    {_repair_solution_continuity(fl, m) :
        m \in {mm \in PickEach([i \in 1..Len(solution) |-> MutationChoices(fl, cr, solution[i])]) :
                 Cardinality({i \in 1..Len(solution) : mm[i] # solution[i]}) <= MaxMutations}}

format_results(fl, cr, solution) ==
    IF solution = <<>> THEN [success |-> FALSE, error |-> "No solution found"]
    ELSE [success |-> TRUE,
          assignments |-> solution,
          total_role_slots |-> total_required_positions(fl),
          covered_slots |-> Len(solution),
          coverage_pct |-> coverage_pct(Len(solution), total_required_positions(fl)),
          total_overtime_hours |-> (100 * _calculate_overtime_penalty(fl, cr, solution)) \div 60]

\* the loop's first statement never finds the time limit exceeded
time_limit_ignored == FALSE

\* if time.time() - start_time > self.config.max_time_seconds: break
time_limit_reached == over_time

\* the wall clock passes max_time_seconds while optimize runs; the clock is read
\* at the top of the generation loop only, where time that passed while the
\* initial population was created and scored is seen as well
TimePasses ==
    /\ gpc \in {"evolve", "offspring"}
    /\ ~over_time
    /\ over_time' = TRUE
    /\ UNCHANGED <<ga_flights, ga_crew, baseline_pairs, exclude_crew, exclude_flights,
                   population, new_population, fitness_scores, best_solution,
                   best_fitness, generation, gpc, ga_request, result, requests_done>>
    /\ UNCHANGED <<baseline_roster, current_roster>>
    /\ UNCHANGED <<eligVars, exactVars, apiVars, stab>>

\* top of the generation loop: elitism
BeginGeneration ==
    /\ gpc = "evolve"
    /\ generation < Generations
    /\ ~time_limit_reached
    /\ \E e \in EliteIndexLists(fitness_scores, EliteSize) :
          new_population' = [i \in 1..Len(e) |-> population[e[i]]]
    /\ gpc' = "offspring"
    /\ UNCHANGED <<ga_flights, ga_crew, baseline_pairs, exclude_crew, exclude_flights,
                   population, fitness_scores, best_solution, best_fitness,
                   generation, ga_request, result, requests_done>>
    /\ UNCHANGED <<baseline_roster, current_roster, over_time>>
    /\ UNCHANGED <<eligVars, exactVars, apiVars, stab>>

\* the rest of one generation once new_population is full: trim, evaluate,
\* update the best solution on a strictly greater fitness
CloseGeneration(full) ==
    LET pop == SubSeq(full, 1, PopulationSize)
        scores == Fitnesses(pop)
        current_best_idx == ArgMax(scores)
    IN /\ population' = pop
       /\ fitness_scores' = scores
       /\ new_population' = <<>>
       /\ IF scores[current_best_idx] > best_fitness
          THEN /\ best_fitness' = scores[current_best_idx]
               /\ best_solution' = pop[current_best_idx]
          ELSE UNCHANGED <<best_fitness, best_solution>>
       /\ generation' = generation + 1
       /\ gpc' = "evolve"

\* one pass of "while len(new_population) < population_size": selection,
\* crossover, mutation of both children; the pass that fills the population
\* runs on to the end of the generation.  A second child that the trim drops
\* is not enumerated.
Offspring ==
    /\ gpc = "offspring"
    /\ LET winners == {tournament_selection(population, fitness_scores, picks) :
                          picks \in [1..TournamentSize -> 1..Len(population)]}
       IN \E parent1 \in winners, parent2 \in winners :
          \E point \in CrossoverPoints(parent1, parent2) :
          LET children == crossover(parent1, parent2, point)
              second == IF Len(new_population) + 2 <= PopulationSize
                        THEN mutate(ga_flights, ga_crew, children[2])
                        ELSE {children[2]}
          IN \E child1 \in mutate(ga_flights, ga_crew, children[1]), child2 \in second :
                LET extended == new_population \o <<child1, child2>>
                IN IF Len(extended) < PopulationSize
                   THEN /\ new_population' = extended
                        /\ UNCHANGED <<population, fitness_scores, best_solution,
                                       best_fitness, generation, gpc>>
                   ELSE CloseGeneration(extended)
    /\ UNCHANGED <<ga_flights, ga_crew, baseline_pairs, exclude_crew, exclude_flights,
                   ga_request, result, requests_done>>
    /\ UNCHANGED <<baseline_roster, current_roster, over_time>>
    /\ UNCHANGED <<eligVars, exactVars, apiVars, stab>>

\* the loop ends, after the last generation or when the time limit is found
\* exceeded at the top of a generation; after the final validation of the best
\* solution optimize returns format_results
Finish ==
    /\ gpc = "evolve"
    /\ generation >= Generations \/ time_limit_reached
    /\ result' = IF best_solution = <<>>
                 THEN [success |-> FALSE, error |-> "No solution found after optimization"]
                 ELSE format_results(ga_flights, ga_crew, best_solution)
    /\ gpc' = "returned"
    /\ UNCHANGED <<ga_flights, ga_crew, baseline_pairs, exclude_crew, exclude_flights,
                   population, new_population, fitness_scores, best_solution,
                   best_fitness, generation, ga_request, requests_done>>
    /\ UNCHANGED <<baseline_roster, current_roster, over_time>>
    /\ UNCHANGED <<eligVars, exactVars, apiVars, stab>>

\* the handler after a successful genetic run: /api/optimize stores the result as
\* current and baseline roster, /api/reoptimize as current roster; the optimizer
\* object of the request is gone
StoreRoster ==
    /\ gpc = "returned"
    /\ result.success
    /\ current_roster' = <<result>>
    /\ baseline_roster' = IF ga_request.kind = "optimize" THEN <<result>> ELSE baseline_roster
    /\ requests_done' = requests_done + 1
    /\ ga_flights' = <<>>
    /\ ga_crew' = <<>>
    /\ baseline_pairs' = {}
    /\ exclude_crew' = {}
    /\ exclude_flights' = {}
    /\ population' = <<>>
    /\ new_population' = <<>>
    /\ fitness_scores' = <<>>
    /\ best_solution' = <<>>
    /\ best_fitness' = NegInf
    /\ generation' = 0
    /\ over_time' = FALSE
    /\ gpc' = "idle"
    /\ UNCHANGED <<ga_request, result>>
    /\ UNCHANGED <<eligVars, exactVars, apiVars, stab>>

-----------------------------------------------------------------------------
(* Scenarios of the eligibility build *)

ElCrewCount == 2

AircraftTypes == {"A320", "ATR72"}

ElRawRoles == {"Captain", "First Officer", " Cabin Crew ", "Senior Cabin Crew"}

ElQualStrings == {<<"A320">>, <<"A320", "|", "ATR72">>, <<"ATR72", ",", "A320">>}

ElCrewIds == [k \in 1..3 |-> <<"C1", "C2", "C3">>[k]]

ElCrew(k, role, qual) ==
    [crew_id |-> ElCrewIds[k], role |-> role, base |-> "DEL",
     qualified_types |-> qual, weekly_max_duty_hrs |-> 40,
     leave_status |-> "Available", sccm_certified |-> FALSE,
     experience_months |-> 0]

\* F1 operates on day 0 and F2 on day 1
ElFlights(ac1, ncap, ncc) ==
    << [flight_id |-> "F1", dep_dt |-> 480, arr_dt |-> 600,
        dep_airport |-> "DEL", arr_airport |-> "BOM", aircraft_type |-> ac1,
        needed_captains |-> ncap, needed_fo |-> 1, needed_sc |-> 0,
        needed_cc |-> ncc],
       [flight_id |-> "F2", dep_dt |-> MinutesPerDay + 480, arr_dt |-> MinutesPerDay + 600,
        dep_airport |-> "BOM", arr_airport |-> "DEL", aircraft_type |-> "A320",
        needed_captains |-> 1, needed_fo |-> 0, needed_sc |-> 1,
        needed_cc |-> 1] >>

InitElig ==
    /\ \E ac1 \in AircraftTypes, ncap \in {0, 1}, ncc \in {0, 2} :
           flights = ElFlights(ac1, ncap, ncc)
    /\ \E roles \in [1..ElCrewCount -> ElRawRoles],
          quals \in [1..ElCrewCount -> ElQualStrings] :
           crew = [k \in 1..ElCrewCount |-> ElCrew(k, roles[k], quals[k])]
    /\ \E days \in SUBSET {0, 1} :
           sickness_days \in {[c \in {"C1"} |-> days], [c \in {} |-> {}]}
    /\ role_slots = <<>>
    /\ eligible = <<>>
    /\ epc = "load"
    /\ ExactIdle
    /\ GaIdle
    /\ AppIdle
    /\ ApiIdle
    /\ stab = [phase |-> "idle"]

\* build_eligibility(bundle)
BuildEligibility ==
    /\ epc = "load"
    /\ role_slots' = build_role_slots(flights)
    /\ eligible' = build_eligibility(flights, crew, sickness_days)
    /\ epc' = "built"
    /\ UNCHANGED <<flights, crew, sickness_days>>
    /\ UNCHANGED <<exactVars, gaVars, appVars, apiVars, stab>>

NextElig == BuildEligibility

SpecElig == InitElig /\ [][NextElig]_vars

-----------------------------------------------------------------------------
(* Scenarios of the exact path: three flights of one cabin seat (F2 may    *)
(* need two), cabin crew based at DEL                                      *)

ExCrewCount == 2

ExMinRestHours == {DefaultMinRestHours, 0}

ExCrew(k, qual) ==
    [crew_id |-> ElCrewIds[k], role |-> "Cabin Crew", base |-> "DEL",
     qualified_types |-> qual, weekly_max_duty_hrs |-> 40,
     leave_status |-> "Available", sccm_certified |-> FALSE,
     experience_months |-> 0]

Other(ap) == IF ap = "DEL" THEN "BOM" ELSE "DEL"

\* F1 08:00-09:00 DEL-BOM; F2 one hour from dep2, BOM-DEL; F3 dur3 minutes from dep3
ExFlights(dep2, ncc2, dep3, ap3, dur3) ==
    << [flight_id |-> "F1", dep_dt |-> 480, arr_dt |-> 540,
        dep_airport |-> "DEL", arr_airport |-> "BOM", aircraft_type |-> "A320",
        needed_captains |-> 0, needed_fo |-> 0, needed_sc |-> 0, needed_cc |-> 1],
       [flight_id |-> "F2", dep_dt |-> dep2, arr_dt |-> dep2 + 60,
        dep_airport |-> "BOM", arr_airport |-> "DEL", aircraft_type |-> "A320",
        needed_captains |-> 0, needed_fo |-> 0, needed_sc |-> 0, needed_cc |-> ncc2],
       [flight_id |-> "F3", dep_dt |-> dep3, arr_dt |-> dep3 + dur3,
        dep_airport |-> ap3, arr_airport |-> Other(ap3), aircraft_type |-> "A320",
        needed_captains |-> 0, needed_fo |-> 0, needed_sc |-> 0, needed_cc |-> 1] >>

InitExact ==
    /\ \E dep2 \in {500, 600}, ncc2 \in {1, 2},
          dep3 \in {570, 585, 720, MinutesPerDay + 480}, ap3 \in {"DEL", "BOM"},
          dur3 \in {60, 75} :
           flights = ExFlights(dep2, ncc2, dep3, ap3, dur3)
    /\ \E quals \in [1..ExCrewCount -> {<<"A320">>, <<"ATR72">>}] :
           crew = [k \in 1..ExCrewCount |-> ExCrew(k, quals[k])]
    /\ sickness_days = [c \in {} |-> {}]
    /\ role_slots = <<>>
    /\ eligible = <<>>
    /\ epc = "load"
    /\ \E h \in ExMinRestHours : rules = RulesWith(h)
    /\ x = <<>>
    /\ has_objective = FALSE
    /\ chosen = {}
    /\ status = ""
    /\ xpc = "idle"
    /\ exact_result = <<>>
    /\ GaIdle
    /\ AppIdle
    /\ ApiIdle
    /\ stab = [phase |-> "idle"]

NextExact ==
    \/ BuildEligibility
    \/ BuildModel
    \/ AddObjective
    \/ Solve
    \/ ExtractResults

SpecExact == InitExact /\ [][NextExact]_vars

-----------------------------------------------------------------------------
(* Night scenarios of the exact path: F1 08:00-09:00 as before, F2 departs   *)
(* at 23:00 of the first day with one or two cabin seats, F3 at 23:00 of the *)
(* second or third day; the rules cap consecutive night duties at one or at  *)
(* the default.                                                              *)

InitNight ==
    /\ \E ncc2 \in {1, 2}, day3 \in {1, 2}, ap3 \in {"DEL", "BOM"} :
           flights = ExFlights(1380, ncc2, day3 * MinutesPerDay + 1380, ap3, 60)
    /\ \E quals \in [1..ExCrewCount -> {<<"A320">>, <<"ATR72">>}] :
           crew = [k \in 1..ExCrewCount |-> ExCrew(k, quals[k])]
    /\ sickness_days = [c \in {} |-> {}]
    /\ role_slots = <<>>
    /\ eligible = <<>>
    /\ epc = "load"
    /\ \E h \in ExMinRestHours, k \in {1, DefaultMaxConsecutiveNights} :
           rules = [RulesWith(h) EXCEPT !.max_consecutive_night_duties = k]
    /\ x = <<>>
    /\ has_objective = FALSE
    /\ chosen = {}
    /\ status = ""
    /\ xpc = "idle"
    /\ exact_result = <<>>
    /\ GaIdle
    /\ AppIdle
    /\ ApiIdle
    /\ stab = [phase |-> "idle"]

SpecNight == InitNight /\ [][NextExact]_vars

-----------------------------------------------------------------------------
(* Base-return scenarios of the exact path: the three flights need one       *)
(* Captain each, or one cabin crew each, and the two crew hold that role;    *)
(* F2 departs at 10:00, F3 at 12:00 or on the next morning.                  *)

InitBase ==
    /\ \E role \in {"Captain", "Cabin Crew"}, base \in {"DEL", "BOM"} :
       \E day3 \in {0, 1}, ap3 \in {"DEL", "BOM"} :
       \E quals \in [1..ExCrewCount -> {<<"A320">>, <<"ATR72">>}] :
           /\ flights = [k \in 1..3 |->
                 LET f == ExFlights(600, 1, day3 * MinutesPerDay + 720, ap3, 60)[k]
                 IN IF role = "Captain"
                    THEN [f EXCEPT !.needed_captains = 1, !.needed_cc = 0] ELSE f]
           /\ crew = [k \in 1..ExCrewCount |->
                        [ExCrew(k, quals[k]) EXCEPT !.role = role, !.base = base]]
    /\ sickness_days = [c \in {} |-> {}]
    /\ role_slots = <<>>
    /\ eligible = <<>>
    /\ epc = "load"
    /\ \E h \in ExMinRestHours : rules = RulesWith(h)
    /\ x = <<>>
    /\ has_objective = FALSE
    /\ chosen = {}
    /\ status = ""
    /\ xpc = "idle"
    /\ exact_result = <<>>
    /\ GaIdle
    /\ AppIdle
    /\ ApiIdle
    /\ stab = [phase |-> "idle"]

SpecBase == InitBase /\ [][NextExact]_vars

-----------------------------------------------------------------------------
(* Composition scenarios of the exact path: F2 needs two cabin crew, both    *)
(* Cabin Crew seats or one of them a Senior Crew seat, and lasts 60 or 75    *)
(* minutes; the crew are Cabin Crew or Senior Crew, certified as SCCM or     *)
(* not, with the experience; the rules file sets the ULH threshold to one    *)
(* hour or leaves the default.                                               *)

InitSccm ==
    /\ \E dur2 \in {60, 75}, nsc2 \in {0, 1} :
           flights = [ExFlights(600, 2, 720, "DEL", 60) EXCEPT
                         ![2].arr_dt = 600 + dur2,
                         ![2].needed_sc = nsc2,
                         ![2].needed_cc = 2 - nsc2]
    /\ \E roles \in [1..ExCrewCount -> {"Cabin Crew", "Senior Crew"}],
          certified \in [1..ExCrewCount -> BOOLEAN] :
           crew = [k \in 1..ExCrewCount |->
                     [ExCrew(k, <<"A320">>) EXCEPT
                         !.role = roles[k],
                         !.sccm_certified = certified[k],
                         !.experience_months = DefaultExpMinMonths]]
    /\ sickness_days = [c \in {} |-> {}]
    /\ role_slots = <<>>
    /\ eligible = <<>>
    /\ epc = "load"
    /\ \E h \in ExMinRestHours, u \in {1, DefaultUlhHours} :
           rules = [RulesWith(h) EXCEPT !.ulh_ft_threshold_hours = u]
    /\ x = <<>>
    /\ has_objective = FALSE
    /\ chosen = {}
    /\ status = ""
    /\ xpc = "idle"
    /\ exact_result = <<>>
    /\ GaIdle
    /\ AppIdle
    /\ ApiIdle
    /\ stab = [phase |-> "idle"]

SpecSccm == InitSccm /\ [][NextExact]_vars

-----------------------------------------------------------------------------
(* Daily scenarios of the exact path: two or four flights of one cabin seat  *)
(* on one day, departing every four hours from 06:00 and lasting dur minutes *)
(* each, DEL-BOM and back; the rules file caps the cabin duty day at the     *)
(* default or at 14 hours.                                                   *)

DayFlights(n, dur) ==
    [k \in 1..n |->
        [flight_id |-> <<"F1", "F2", "F3", "F4">>[k],
         dep_dt |-> 360 + 240 * (k - 1), arr_dt |-> 360 + 240 * (k - 1) + dur,
         dep_airport |-> IF k % 2 = 1 THEN "DEL" ELSE "BOM",
         arr_airport |-> IF k % 2 = 1 THEN "BOM" ELSE "DEL",
         aircraft_type |-> "A320",
         needed_captains |-> 0, needed_fo |-> 0, needed_sc |-> 0, needed_cc |-> 1]]

InitDaily ==
    /\ \E n \in {2, 4}, dur \in {100, 130, 170, 700} : flights = DayFlights(n, dur)
    /\ \E quals \in [1..ExCrewCount -> {<<"A320">>, <<"ATR72">>}] :
           crew = [k \in 1..ExCrewCount |-> ExCrew(k, quals[k])]
    /\ sickness_days = [c \in {} |-> {}]
    /\ role_slots = <<>>
    /\ eligible = <<>>
    /\ epc = "load"
    /\ \E h \in ExMinRestHours, cap \in {DefaultDailyCabin, 14} :
           rules = [RulesWith(h) EXCEPT !.daily_max_duty_hrs["Cabin"] = cap]
    /\ x = <<>>
    /\ has_objective = FALSE
    /\ chosen = {}
    /\ status = ""
    /\ xpc = "idle"
    /\ exact_result = <<>>
    /\ GaIdle
    /\ AppIdle
    /\ ApiIdle
    /\ stab = [phase |-> "idle"]

SpecDaily == InitDaily /\ [][NextExact]_vars

-----------------------------------------------------------------------------
(* Window scenarios of the exact path: F3 departs at 01:00, 07:00, 21:00 or  *)
(* 23:00 and lasts one, three, six or fifteen hours; the night window        *)
(* (22:00-05:00) wraps past midnight and the WOCL window (02:00-06:00) does  *)
(* not.                                                                      *)

InitWindow ==
    /\ \E dep3 \in {60, 420, 1260, 1380}, dur3 \in {60, 180, 360, 900} :
           flights = ExFlights(600, 1, dep3, "DEL", dur3)
    /\ \E quals \in [1..ExCrewCount -> {<<"A320">>, <<"ATR72">>}] :
           crew = [k \in 1..ExCrewCount |-> ExCrew(k, quals[k])]
    /\ sickness_days = [c \in {} |-> {}]
    /\ role_slots = <<>>
    /\ eligible = <<>>
    /\ epc = "load"
    /\ \E h \in ExMinRestHours : rules = RulesWith(h)
    /\ x = <<>>
    /\ has_objective = FALSE
    /\ chosen = {}
    /\ status = ""
    /\ xpc = "idle"
    /\ exact_result = <<>>
    /\ GaIdle
    /\ AppIdle
    /\ ApiIdle
    /\ stab = [phase |-> "idle"]

SpecWindow == InitWindow /\ [][NextExact]_vars

-----------------------------------------------------------------------------
(* Scenarios of the genetic path: three cabin crew based at DEL; F2, with   *)
(* two cabin seats, flies DEL-BOM 08:00-09:00; F1, with one, departs 09:30. *)
(* The first request is /api/optimize, the what-if requests follow it.      *)

GaCrewCount == 3

\* C1 and C2 fly the A320 only, the others the ATR72 as well
GaCrewTable ==
    [k \in 1..GaCrewCount |->
        [crew_id |-> <<"C1", "C2", "C3", "C4">>[k], role |-> "Cabin Crew", base |-> "DEL",
         qualified_types |-> IF k <= 2 THEN <<"A320">> ELSE <<"A320", "|", "ATR72">>,
         weekly_max_duty_hrs |-> 40,
         leave_status |-> "Available", sccm_certified |-> FALSE,
         experience_months |-> 0]]

\* F1 is an ATR72 flight, F2 an A320 flight
GaFlightTable(ap1, dur1) ==
    << [flight_id |-> "F1", dep_dt |-> 570, arr_dt |-> 570 + dur1,
        dep_airport |-> ap1, arr_airport |-> Other(ap1), aircraft_type |-> "ATR72",
        needed_captains |-> 0, needed_fo |-> 0, needed_sc |-> 0, needed_cc |-> 1],
       [flight_id |-> "F2", dep_dt |-> 480, arr_dt |-> 540,
        dep_airport |-> "DEL", arr_airport |-> "BOM", aircraft_type |-> "A320",
        needed_captains |-> 0, needed_fo |-> 0, needed_sc |-> 0, needed_cc |-> 2] >>

EligIdle ==
    /\ sickness_days = [c \in {} |-> {}]
    /\ role_slots = <<>>
    /\ eligible = <<>>
    /\ epc = "load"

InitGA ==
    /\ \E sc \in {<<"DEL", 120>>, <<"BOM", 60>>} : flights = GaFlightTable(sc[1], sc[2])
    /\ crew = GaCrewTable
    /\ EligIdle
    /\ ExactIdle
    /\ GaIdle
    /\ AppIdle
    /\ ApiIdle
    /\ stab = [phase |-> "idle"]

NextGA ==
    \/ OptimizeRequest
    \/ ReoptimizeRequest
    \/ CreateInitialPopulation
    \/ EvaluateInitial
    \/ BeginGeneration
    \/ Offspring
    \/ Finish
    \/ TimePasses
    \/ StoreRoster

SpecGA == InitGA /\ [][NextGA]_vars

-----------------------------------------------------------------------------
(* The single-flight scenario: one A320 flight DEL to BOM that needs one     *)
(* Captain, one First Officer and two cabin crew, and a pool of exactly one  *)
(* Captain, one First Officer and two cabin crew, all qualified on the A320  *)
(* and available; the requests are those of the genetic path.                *)

SingleCrewTable ==
    [k \in 1..4 |->
        [crew_id |-> <<"C1", "C2", "C3", "C4">>[k],
         role |-> <<"Cabin Crew", "Cabin Crew", "Captain", "First Officer">>[k],
         base |-> "DEL", qualified_types |-> <<"A320">>, weekly_max_duty_hrs |-> 40,
         leave_status |-> "Available", sccm_certified |-> FALSE,
         experience_months |-> 0]]

SingleFlightTable(dur) ==
    << [flight_id |-> "F1", dep_dt |-> 480, arr_dt |-> 480 + dur,
        dep_airport |-> "DEL", arr_airport |-> "BOM", aircraft_type |-> "A320",
        needed_captains |-> 1, needed_fo |-> 1, needed_sc |-> 0, needed_cc |-> 2] >>

InitSingle ==
    /\ \E dur \in {120, 135} : flights = SingleFlightTable(dur)
    /\ crew = SingleCrewTable
    /\ EligIdle
    /\ ExactIdle
    /\ GaIdle
    /\ AppIdle
    /\ ApiIdle
    /\ stab = [phase |-> "idle"]

SpecSingle == InitSingle /\ [][NextGA]_vars

\* optimize is between its call and its return
OptimizeRuns == gpc \in {"loaded", "created", "evolve", "offspring"}

\* the interpreter has run optimize to its next position
OptimizeStep == gpc' # gpc \/ new_population' # new_population

\* the same scenario with the interpreter running optimize on: optimize is a
\* sequential loop that waits for nothing, so that its next statement is
\* enabled as long as it runs, and weak fairness on its steps reads "either
\* optimize is not running infinitely often, or it steps infinitely often"
SpecClock ==
    /\ InitSingle
    /\ [][NextGA]_vars
    /\ ([]<>(~OptimizeRuns) \/ []<><<OptimizeStep>>_vars)

-----------------------------------------------------------------------------
(* One call of OptimizationService.run_optimization on the flights of the   *)
(* genetic scenarios and the first crew rows of its table (none, some, all): *)
(* use_genetic = True runs the genetic path, use_genetic = False the exact   *)
(* path.                                                                     *)

InitRun ==
    /\ \E sc \in {<<"DEL", 120>>, <<"BOM", 60>>} : flights = GaFlightTable(sc[1], sc[2])
    /\ \E n \in 0..GaCrewCount : crew = SubSeq(GaCrewTable, 1, n)
    /\ EligIdle
    /\ ExactIdle
    /\ GaIdle
    /\ AppIdle
    /\ ApiIdle
    /\ stab = [phase |-> "idle"]

NextRun ==
    \/ epc = "load" /\ OptimizeRequest
    \/ epc = "load" /\ CreateInitialPopulation
    \/ epc = "load" /\ EvaluateInitial
    \/ epc = "load" /\ BeginGeneration
    \/ epc = "load" /\ Offspring
    \/ epc = "load" /\ Finish
    \/ epc = "load" /\ TimePasses
    \/ gpc = "idle" /\ BuildEligibility
    \/ gpc = "idle" /\ BuildModel
    \/ gpc = "idle" /\ AddObjective
    \/ gpc = "idle" /\ Solve
    \/ gpc = "idle" /\ ExtractResults

SpecRun == InitRun /\ [][NextRun]_vars

-----------------------------------------------------------------------------
(* Two runs of GeneticOptimizer.optimize on the same flights, crew and       *)
(* baseline and with the same random draws, one with w_stability = w1, the   *)
(* other with w_stability = w2.  The draws before the first selection do not *)
(* depend on the weights, so the initial population (the baseline seed and   *)
(* the random individuals) is one and the same; the later draws are the      *)
(* indices the two tournaments pick, the crossover decision and point, and   *)
(* the position and choice of the mutation of the first child (the second    *)
(* child draws no mutation).  The baseline is a roster of the flights that   *)
(* were on the schedule when it was made.  One generation; the first         *)
(* tournament picks the two random individuals, the second the last one      *)
(* twice, and the crossover cuts at the second of the two points.  The       *)
(* generation is taken step by step: evaluation, selection and crossover,    *)
(* mutation and replacement, evaluation of the next population, return.      *)

\* config.population_size of the two runs
StabPopulationSize == 3

\* the pairs of weights compared
StabWeights == {<<0, 1>>, <<1, 2>>}

InitStab ==
    /\ flights = GaFlightTable("BOM", 60)
    /\ crew = GaCrewTable
    /\ EligIdle
    /\ ExactIdle
    /\ GaIdle
    /\ AppIdle
    /\ ApiIdle
    /\ LET cr == [k \in 1..Len(crew) |-> LoadCrewRow(crew[k])]
           rosters == {b \in create_random_solution(flights, cr) :
                          \A i, j \in 1..Len(b) : (i < j) => b[i][1] # b[j][1]}
           lone == {b \in create_random_solution(flights, cr) :
                          \A i, j \in 1..Len(b) : (b[i][2] = b[j][2]) => b[i][1] = b[j][1]}
       IN \E base \in rosters, on \in {{"F2"}, {"F1", "F2"}} :
          \E seed \in _build_seed_from_baseline(flights, cr, {p \in Range(base) : p[2] \in on}) :
          \E rnd1 \in lone : \E rnd2 \in lone \ {rnd1} :
          \E w \in StabWeights :
          \E mut_pos \in {0, 2}, mut_u \in 0..1 :
             stab = [phase |-> "drawn",
                     pairs |-> {p \in Range(base) : p[2] \in on},
                     population |-> <<_repair_solution_continuity(flights, seed), rnd1, rnd2>>,
                     w |-> w, picks1 |-> <<2, 3>>, picks2 |-> <<3, 3>>, cross |-> TRUE,
                     point_u |-> 1, mut_pos |-> mut_pos, mut_u |-> mut_u,
                     scores |-> <<>>, offspring |-> <<>>, new_population |-> <<>>,
                     calls |-> <<>>, new_scores |-> <<>>]

\* mutate: available_crew of one assignment, in the order of the crew list
available_crew(fl, cr, a) ==
    SelectSeq(cr, LAMBDA c : /\ c.role = a[3]
                             /\ c.available
                             /\ GaQualified(c, FlightById(fl, a[2]))
                             /\ c.crew_id # a[1])

\* the fitness of every individual of a population under w_stability = w
population_scores(w, pop) ==
    [i \in 1..Len(pop) |->
        evaluate_fitness(flights, [k \in 1..Len(crew) |-> LoadCrewRow(crew[k])],
                         stab.pairs, w, pop[i])]

\* the selections and the crossover of the generation, from the scores of a
\* run: the two children and the range of the crossover point drawn
offspring(scores) ==
    LET parent1 == tournament_selection(stab.population, scores, stab.picks1)
        parent2 == tournament_selection(stab.population, scores, stab.picks2)
        draws_point == stab.cross /\ Len(parent1) > 1 /\ Len(parent2) > 1
        points == Min(Len(parent1), Len(parent2)) - 1
    IN [children |-> crossover(parent1, parent2,
                               IF draws_point THEN 1 + (stab.point_u % points) ELSE 0),
        points |-> IF draws_point THEN points ELSE 0]

\* mutate on the first child: the child after the draw
mutated(children) ==
    LET cr == [k \in 1..Len(crew) |-> LoadCrewRow(crew[k])]
        av == IF stab.mut_pos \in 1..Len(children[1])
              THEN available_crew(flights, cr, children[1][stab.mut_pos]) ELSE <<>>
    IN [child |-> IF av = <<>> THEN children[1]
                  ELSE [children[1] EXCEPT ![stab.mut_pos] =
                           <<av[1 + (stab.mut_u % Len(av))].crew_id, @[2], @[3]>>],
        choices |-> Len(av)]

\* the next population of a run: the elite, then the two children, trimmed
next_population(scores, children) ==
    LET elite == CHOOSE e \in EliteIndexLists(scores, EliteSize) : TRUE
    IN SubSeq([i \in 1..Len(elite) |-> stab.population[elite[i]]]
                \o <<_repair_solution_continuity(flights, mutated(children).child),
                     _repair_solution_continuity(flights, children[2])>>,
              1, StabPopulationSize)

\* both runs evaluate the initial population
StabEvaluate ==
    /\ stab.phase = "drawn"
    /\ stab' = [stab EXCEPT !.phase = "scored",
                            !.scores = [r \in 1..2 |->
                                          population_scores(stab.w[r], stab.population)]]
    /\ UNCHANGED <<eligVars, exactVars, gaVars, appVars, apiVars>>

\* both runs select parents and cross them
StabCrossover ==
    /\ stab.phase = "scored"
    /\ stab' = [stab EXCEPT !.phase = "crossed",
                            !.offspring = [r \in 1..2 |-> offspring(stab.scores[r])]]
    /\ UNCHANGED <<eligVars, exactVars, gaVars, appVars, apiVars>>

\* both runs mutate, repair and build the next population
StabMutate ==
    /\ stab.phase = "crossed"
    /\ stab' = [stab EXCEPT !.phase = "bred",
                            !.new_population =
                                [r \in 1..2 |-> next_population(stab.scores[r],
                                                               stab.offspring[r].children)],
                            !.calls =
                                [r \in 1..2 |->
                                    <<stab.offspring[r].points,
                                      Len(stab.offspring[r].children[1]),
                                      Len(stab.offspring[r].children[2]),
                                      mutated(stab.offspring[r].children).choices>>]]
    /\ UNCHANGED <<eligVars, exactVars, gaVars, appVars, apiVars>>

\* both runs evaluate the next population
StabRescore ==
    /\ stab.phase = "bred"
    /\ stab' = [stab EXCEPT !.phase = "rescored",
                            !.new_scores = [r \in 1..2 |->
                                              population_scores(stab.w[r],
                                                                stab.new_population[r])]]
    /\ UNCHANGED <<eligVars, exactVars, gaVars, appVars, apiVars>>

\* both runs return: the best solution after the generation, what it keeps
\* of the baseline, and the random calls made after the selections with the
\* range of each
StabilityRuns ==
    /\ stab.phase = "rescored"
    /\ stab' = [stab EXCEPT
                  !.phase = "run",
                  !.w = [r \in 1..2 |->
                           LET scores == stab.scores[r]
                               new_scores == stab.new_scores[r]
                               best == IF new_scores[ArgMax(new_scores)] > scores[ArgMax(scores)]
                                       THEN stab.new_population[r][ArgMax(new_scores)]
                                       ELSE stab.population[ArgMax(scores)]
                           IN [best_solution |-> best,
                               kept |-> Cardinality(Range(best) \cap stab.pairs),
                               calls |-> stab.calls[r]]]]
    /\ UNCHANGED <<eligVars, exactVars, gaVars, appVars, apiVars>>

NextStab ==
    \/ StabEvaluate
    \/ StabCrossover
    \/ StabMutate
    \/ StabRescore
    \/ StabilityRuns

SpecStab == InitStab /\ [][NextStab]_vars

-----------------------------------------------------------------------------
(* Properties of the eligibility build *)

\* the types a "|"-separated qualification string lists
ListedTypes(q) ==
    {q[i] : i \in {j \in 1..Len(q) :
                     /\ q[j] \notin {"|"}
                     /\ (j = 1 \/ q[j - 1] = "|")
                     /\ (j = Len(q) \/ q[j + 1] = "|")}}

SickOn(c, d) == c \in DOMAIN sickness_days /\ d \in sickness_days[c]

\* C8: build_eligibility emits (crew, flight, role, slot) exactly when the
\* crew's normalized role is the slot's role, the flight's aircraft type is
\* among the crew's qualified types and the flight's operating day is not a
\* sick date of the crew; a crew sick on a flight's day is in no tuple of
\* that flight.
C8_EligibilityRelation ==
    epc = "built" =>
        /\ \A c \in Range(crew), s \in Range(role_slots) :
              LET f == FlightById(flights, s.flight_id) IN
              (<<c.crew_id, s.flight_id, s.role, s.slot_index>> \in Range(eligible))
                <=> /\ role_key(c.role) = s.role
                    /\ f.aircraft_type \in ListedTypes(c.qualified_types)
                    /\ ~SickOn(c.crew_id, DateOf(f.dep_dt))
        /\ \A t \in Range(eligible) :
              /\ \E c \in Range(crew) : c.crew_id = t[1]
              /\ RoleSlot(t[2], t[3], t[4]) \in Range(role_slots)
              /\ ~SickOn(t[1], DateOf(FlightById(flights, t[2]).dep_dt))

\* a crew sick on F1's day and otherwise fit for both flights is eligible on
\* F2 only
C8_Witness ==
    /\ epc = "built"
    /\ SickOn("C1", 0) /\ ~SickOn("C1", 1)
    /\ \E t \in Range(eligible) : t[1] = "C1" /\ t[2] = "F2"
    /\ \E s \in Range(role_slots) :
          /\ s.flight_id = "F1"
          /\ s.role = role_key(crew[1].role)
          /\ has_qual(crew[1].qualified_types, flights[1].aircraft_type)
    /\ ~\E t \in Range(eligible) : t[1] = "C1" /\ t[2] = "F1"

\* C22: with no sickness and every crew available, the genetic engine takes
\* a crew as a candidate for a role on a flight if and only if the eligibility
\* builder emits a tuple for that crew on a slot of that role of that flight,
\* whatever the raw role string of the crew record.
C22_SameCandidates ==
    (epc = "built" /\ DOMAIN sickness_days = {}) =>
        \A k \in 1..Len(crew), s \in Range(role_slots), gi \in 1..Len(RoleGroups) :
            role_key(RoleGroups[gi].label) = s.role =>
               LET f == FlightById(flights, s.flight_id)
                   c == LoadCrewRow(crew[k])
               IN (<<c.crew_id, f.flight_id, RoleGroups[gi].label>>
                      \in SeatChoices(<<c>>, f, RoleGroups[gi]))
                    <=> (<<c.crew_id, s.flight_id, s.role, s.slot_index>>
                            \in Range(eligible))

-----------------------------------------------------------------------------
(* Properties of the exact path *)

\* the flights crew c holds in the solution read back from the solver
ChosenFlights(c) == {t[2] : t \in {u \in chosen : u[1] = c}}

Dep(fid) == FlightById(flights, fid).dep_dt
Arr(fid) == FlightById(flights, fid).arr_dt

\* f1 and f2 follow one another, by departure time, among the flights c holds
ConsecutiveChosen(c, f1, f2) ==
    /\ f1 \in ChosenFlights(c)
    /\ f2 \in ChosenFlights(c)
    /\ f1 # f2
    /\ Dep(f1) <= Dep(f2)
    /\ ~ \E g \in ChosenFlights(c) \ {f1, f2} : Dep(f1) <= Dep(g) /\ Dep(g) <= Dep(f2)

min_rest_minutes == rules.min_rest_hours_between_duties * 60

\* C4: rest floor of the exact path.  In every solution of the exact model, two
\* flights of one crew that are consecutive by departure among its chosen
\* flights are separated (arrival to next departure) by at least
\* min_rest_hours_between_duties.
C4_RestFloor ==
    Solved =>
        \A k \in 1..Len(crew) : \A f1, f2 \in ChosenFlights(crew[k].crew_id) :
            ConsecutiveChosen(crew[k].crew_id, f1, f2)
                => Dep(f2) - Arr(f1) >= min_rest_minutes

\* C5: no-overlap with turnaround in the exact path.  No solution of the exact
\* model gives one crew two keys whose intervals [dep, arr + turnaround_minutes]
\* overlap; a pair of flights 30 minutes apart is never held by one crew.
C5_NoOverlapWithTurnaround ==
    Solved =>
        \A t1, t2 \in chosen :
            (t1 # t2 /\ t1[1] = t2[1]) =>
                ~ overlaps_with_turnaround(Dep(t1[2]), Arr(t1[2]), Dep(t2[2]), Arr(t2[2]),
                                           rules.turnaround_minutes)

\* a solution in which a crew holds one of two of its potential flights that
\* are 30 minutes apart, under rules whose rest floor does not separate them
C5_Witness ==
    /\ Solved
    /\ min_rest_minutes <= 30
    /\ \E t1 \in chosen : \E t2 \in Range(x) :
          /\ t1[1] = t2[1]
          /\ Dep(t2[2]) - Arr(t1[2]) = 30

SlotKeys(slot) ==
    {t \in Range(x) : t[2] = slot.flight_id /\ t[3] = slot.role /\ t[4] = slot.slot_index}

\* C6: exact coverage.  In every solution of the exact model each RoleSlot has
\* exactly one true decision variable, and when some RoleSlot has no eligible
\* tuple the solver returns no solution.
C6_ExactCoverage ==
    /\ Solved => \A i \in 1..Len(role_slots) :
                    Cardinality(SlotKeys(role_slots[i]) \cap chosen) = 1
    /\ (xpc = "solved" /\ \E i \in 1..Len(role_slots) : SlotKeys(role_slots[i]) = {})
            => status \notin {"OPTIMAL", "FEASIBLE"}

\* a solution that fills the four seats of three flights, two of them on F2,
\* each seat having had two candidates
C6_Witness ==
    /\ Solved
    /\ Len(role_slots) = 4
    /\ \A i \in 1..Len(role_slots) : Cardinality(SlotKeys(role_slots[i])) = 2
    /\ Cardinality(chosen) = 4

\* C16: location continuity of the exact path.  In every solution of the exact
\* model, for every crew, the flights the crew is assigned to, taken in
\* departure order, form an unbroken chain: each departs from the airport
\* where the assigned flight before it arrived.
C16_ExactContinuity ==
    Solved =>
        \A k \in 1..Len(crew) : \A f1, f2 \in ChosenFlights(crew[k].crew_id) :
            ConsecutiveChosen(crew[k].crew_id, f1, f2)
                => FlightById(flights, f1).arr_airport = FlightById(flights, f2).dep_airport

\* C17: adding the objective does not change feasibility.  Once add_objective
\* has been applied, every assignment of the decision variables that satisfies
\* the constraints of build_model_with_constraints is still feasible.
C17_ObjectiveKeepsFeasibility ==
    (xpc = "objective") =>
        \A S \in Solutions(x, role_slots, flights, crew, rules, FALSE) :
            Feasible(S, x, role_slots, flights, crew, rules, TRUE)

\* C19: consecutive-night cap.  In every solution of the exact model no crew
\* holds night-window flights on more than max_consecutive_night_duties
\* consecutive calendar dates, and a crew's night-window assignments number at
\* most max_overnight_duties_per_week.
C19_ConsecutiveNightCap ==
    Solved =>
        \A k \in 1..Len(crew) :
            LET night == {t \in chosen :
                            /\ t[1] = crew[k].crew_id
                            /\ in_night_window(Dep(t[2]), Arr(t[2]),
                                   rules.night_duty_window[1], rules.night_duty_window[2])}
                dates == {DateOf(Dep(t[2])) : t \in night}
            IN /\ \A d \in dates :
                     \E e \in d..(d + rules.max_consecutive_night_duties) : e \notin dates
               /\ Cardinality(night) <= rules.max_overnight_duties_per_week

\* C20: base-return penalty.  In every solution of the exact model, for every
\* crew and every operating day on which the crew holds a flight, the
\* base-return penalty of that crew and day is forced positive when the last
\* flight the crew holds that day arrives away from the crew's base, and may
\* be zero otherwise.
C20_BaseReturnPenalty ==
    Solved =>
        \A k \in 1..Len(crew), d \in operating_days(flights) :
            LET mine == {f \in ChosenFlights(crew[k].crew_id) : DateOf(Dep(f)) = d}
                last == CHOOSE f \in mine : \A g \in mine : Dep(g) <= Dep(f)
            IN mine # {} =>
                 IF FlightById(flights, last).arr_airport # crew[k].base
                 THEN /\ base_day_flights(x, flights, crew[k], d) # <<>>
                      /\ least_base_penalty(chosen, x, flights, crew[k], d) > 0
                 ELSE least_base_penalty(chosen, x, flights, crew[k], d) = 0

\* C21: for every flight whose cabin demand (CC + SC) exceeds 1, the SCCM
\* constraint with requirement req is in the model only if at least req
\* distinct SCCM-qualified crew are eligible on the flight, so that the
\* composition rule alone never makes the model infeasible.
C21_SccmOnlyWhereSatisfiable ==
    xpc # "idle" =>
        \A k \in 1..Len(flights) :
            (/\ flights[k].needed_cc + flights[k].needed_sc > 1
             /\ sccm_vars(x, flights[k], crew, rules) # {})
               => Cardinality({t[1] : t \in sccm_vars(x, flights[k], crew, rules)})
                     >= sccm_req(flights[k], rules)

\* C27: in every solution of the exact model, for every crew and operating
\* day, with M the minutes of the crew's chosen flights of the day and L their
\* number, M is at most the role's daily cap in minutes, L <= 6 if M <= 480,
\* L <= 3 if 480 < M <= 660, L <= 1 if M > 660, and exactly one bracket
\* indicator is true, the one that matches M.
C27_DailyLandings ==
    Solved =>
        \A k \in 1..Len(crew) : \A d \in operating_days(flights) :
            LET T == DayKeys(x, flights, crew[k].crew_id, d)
                M == ChosenMinutes(chosen, T, flights)
                L == Cardinality(chosen \cap T)
            IN /\ M <= 60 * daily_cap_for_role(rules, role_key(crew[k].role))
               /\ L <= LandingsCap(M)
               /\ bracket_indicators(M) =
                     {[n \in {"b_le_8", "b_8_11", "b_gt_11"} |->
                         CASE n = "b_le_8" -> M <= 480
                           [] n = "b_8_11" -> M > 480 /\ M <= 660
                           [] n = "b_gt_11" -> M > 660]}

\* a solution in which a crew flies three flights of 510 minutes in all, the
\* most the middle bracket allows
C27_Witness ==
    /\ Solved
    /\ \E k \in 1..Len(crew) : \E d \in operating_days(flights) :
          LET T == DayKeys(x, flights, crew[k].crew_id, d)
          IN /\ ChosenMinutes(chosen, T, flights) > 480
             /\ ChosenMinutes(chosen, T, flights) <= 660
             /\ Cardinality(chosen \cap T) = 3

\* C28: for the night window and for the WOCL window of the rules, of every
\* flight the model is built for, in_night_window(dep, arr, start, end) is
\* true if and only if some minute of [dep, arr] lies within the daily window
\* [start, end), whether the window wraps past midnight or not.
C28_WindowMembership ==
    xpc # "idle" =>
        \A k \in 1..Len(flights) :
        \A w \in {rules.night_duty_window, rules.wocl_window} :
            in_night_window(flights[k].dep_dt, flights[k].arr_dt, w[1], w[2])
              <=> \E t \in flights[k].dep_dt..flights[k].arr_dt :
                     in_window(TimeOf(t), w[1], w[2])

\* C11: an infeasible exact model is a failure.  Whenever the solver's status is
\* neither OPTIMAL nor FEASIBLE, the result of the exact path is a failure that
\* carries the status and holds no assignments; it is never a success.
C11_InfeasibleIsFailure ==
    (xpc = "returned" /\ status \notin {"OPTIMAL", "FEASIBLE"}) =>
        /\ ~exact_result.success
        /\ "status" \in DOMAIN exact_result
        /\ exact_result.status = status
        /\ "assignments" \in DOMAIN exact_result => exact_result.assignments = {}

-----------------------------------------------------------------------------
(* Properties of the genetic path *)

\* optimize has returned a solution for the request being served
GaReturned == gpc = "returned" /\ result.success

NoDoubleSeat(solution) ==
    \A i, j \in 1..Len(solution) :
        (i < j) => ~(solution[i][1] = solution[j][1] /\ solution[i][2] = solution[j][2])

\* C1: no double-seat.  In the solution either path returns (the best individual
\* of the genetic optimizer, or a solution of the exact model) a crew has at most
\* one assignment to a flight.
C1_NoDoubleSeat ==
    /\ GaReturned => NoDoubleSeat(result.assignments)
    /\ Solved => \A t1, t2 \in chosen : (t1[1] = t2[1] /\ t1[2] = t2[2]) => t1 = t2

\* the distinct flights of crew c in a solution follow one another: in
\* departure order each departs from where the one before arrived
Continuous(fl, solution, c) ==
    LET fs == Dedupe(ScheduleOf(fl, solution, c))
    IN \A i \in 2..Len(fs) :
          FlightById(fl, fs[i]).dep_airport = FlightById(fl, fs[i - 1]).arr_airport

ContinuousSolution(fl, solution) ==
    \A c \in CrewsOf(solution) : Continuous(fl, solution, c)

Individuals ==
    Range(population) \cup Range(new_population) \cup {best_solution}
        \cup (IF result.success THEN {result.assignments} ELSE {})

\* C2: genetic continuity.  Every individual of the initial population and of
\* every later generation, and the returned solution, is continuous for every
\* crew; and when, for one crew, the earlier flight arrives at BOM and the later
\* one departs from DEL, the repair keeps the earlier and drops the later.
C2_GeneticContinuity ==
    /\ (gpc # "idle") => \A s \in Individuals : ContinuousSolution(ga_flights, s)
    /\ (gpc = "loaded") =>
          \A raw \in PickEach(Concat([k \in 1..Len(ga_flights) |->
                                        FlightSeats(ga_crew, ga_flights[k])])) :
          \A c \in CrewsOf(raw) : \A f1, f2 \in Range(ScheduleOf(ga_flights, raw, c)) :
              ( /\ FlightById(ga_flights, f1).dep_dt < FlightById(ga_flights, f2).dep_dt
                /\ FlightById(ga_flights, f1).arr_airport = "BOM"
                /\ FlightById(ga_flights, f2).dep_airport = "DEL" )
              => LET repaired == _repair_solution_continuity(ga_flights, raw)
                 IN /\ \E a \in Range(repaired) : a[1] = c /\ a[2] = f1
                    /\ ~ \E a \in Range(repaired) : a[1] = c /\ a[2] = f2

\* a later generation in which a crew holds two distinct flights, in the
\* scenario whose flights are 30 minutes apart
C2_Witness ==
    /\ gpc = "evolve"
    /\ generation >= 1
    /\ \E s \in Range(population) : \E c \in CrewsOf(s) :
          Cardinality(Range(ScheduleOf(ga_flights, s, c))) >= 2

\* C3: in a solution the genetic path returns no crew holds two different
\* flights whose intervals [dep, arr + turnaround] overlap.
C3_GeneticNoOverlap ==
    GaReturned =>
        \A a, b \in Range(result.assignments) :
            (a[1] = b[1] /\ a[2] # b[2]) =>
                ~ overlaps_with_turnaround(
                      FlightById(ga_flights, a[2]).dep_dt, FlightById(ga_flights, a[2]).arr_dt,
                      FlightById(ga_flights, b[2]).dep_dt, FlightById(ga_flights, b[2]).arr_dt,
                      DefaultTurnaround)

\* C7: genetic coverage bounds.  Every successful result of optimize reports a
\* coverage_pct between 0 and 100 and at most total_role_slots assignments.
C7_GeneticCoverageBounds ==
    GaReturned =>
        /\ result.coverage_pct >= 0
        /\ result.coverage_pct <= 10000
        /\ Len(result.assignments) <= result.total_role_slots

Cancelled == {d[1] : d \in {e \in ga_request.flight_disruptions : e[2] = "cancellation"}}

Mentions(solution, X) == \E a \in Range(solution) : a[2] \in X

\* C9: exclusion-aware baseline.  No baseline pair names an excluded crew or an
\* excluded flight; a flight the request cancels is in no loaded flight, no
\* baseline pair, no individual (the seed included) and no returned assignment.
C9_ExclusionAwareBaseline ==
    /\ \A p \in baseline_pairs : p[1] \notin exclude_crew /\ p[2] \notin exclude_flights
    /\ (gpc # "idle") =>
          /\ \A k \in 1..Len(ga_flights) : ga_flights[k].flight_id \notin Cancelled
          /\ \A p \in baseline_pairs : p[2] \notin Cancelled
          /\ \A s \in Individuals : ~Mentions(s, Cancelled)

\* a what-if request that cancels a flight the baseline roster had crewed has
\* been answered with a solution grown from a baseline seed
C9_Witness ==
    /\ GaReturned
    /\ Cancelled # {}
    /\ baseline_pairs # {}
    /\ Mentions(baseline_roster[1].assignments, Cancelled)

\* C12: an empty search result is a failure.  optimize returns success only
\* with a non-empty assignment list; when every individual of the initial
\* population is empty it returns at once a failure whose reason says that no
\* valid assignment was generated, and when the best solution is empty it
\* returns a failure with a reason.
C12_EmptySearchIsFailure ==
    /\ [](gpc \in {"failed", "returned"} =>
            /\ result.success => result.assignments # <<>>
            /\ ~result.success => result.error # ""
            /\ best_solution = <<>> => ~result.success)
    /\ [][(gpc = "created" /\ \A i \in 1..Len(population) : population[i] = <<>>) =>
            /\ gpc' = "failed"
            /\ result' = [success |-> FALSE,
                          error |-> "Failed to generate any valid assignments"]]_vars

\* a what-if request that cancels every flight has been answered: the initial
\* population held empty individuals only
C12_Witness ==
    /\ gpc = "failed"
    /\ ga_flights = <<>>
    /\ population # <<>>
    /\ \A i \in 1..Len(population) : population[i] = <<>>
    /\ ~result.success

-----------------------------------------------------------------------------
(* Properties of run_optimization *)

\* C13: discriminated result.  On either path run_optimization returns one
\* record that is either a success with the assignments and the KPIs or a
\* failure with an error reason; an exception raised inside is answered as a
\* failure and does not propagate.
C13_DiscriminatedResult ==
    LET Discriminated(r) ==
            /\ "success" \in DOMAIN r
            /\ r.success =>
                  /\ {"assignments", "total_role_slots", "covered_slots", "coverage_pct"}
                        \subseteq DOMAIN r
                  /\ "error" \notin DOMAIN r
            /\ ~r.success =>
                  /\ "error" \in DOMAIN r
                  /\ r.error # ""
                  /\ "assignments" \notin DOMAIN r
    IN /\ gpc \in {"failed", "returned"} => Discriminated(result)
       /\ xpc = "returned" => Discriminated(exact_result)

\* the exact path has answered a failure for a model with decision variables
\* and no solution: the exception of the read-back was caught
C13_Witness ==
    /\ xpc = "returned"
    /\ x # <<>>
    /\ status = "INFEASIBLE"
    /\ exact_result = [success |-> FALSE, error |-> "solver.Value"]

\* C15: the single-flight scenario.  Every run of the genetic path on the one
\* flight that needs a Captain, a First Officer and two cabin crew, with the
\* pool of one Captain, one First Officer and two cabin crew, returns a
\* success with coverage_pct = 100.00, exactly four assignments, as many for
\* each role as the flight needs, and zero overtime.
C15_SingleFlight ==
    ( /\ gpc \in {"failed", "returned"}
      /\ ga_flights = flights
      /\ Len(ga_crew) = Len(crew) )
    => /\ result.success
       /\ result.coverage_pct = 10000
       /\ Len(result.assignments) = 4
       /\ \A gi \in 1..Len(RoleGroups) :
             Len(SelectSeq(result.assignments, LAMBDA a : a[3] = RoleGroups[gi].label))
                = ga_flights[1][RoleGroups[gi].need]
       /\ result.total_overtime_hours = 0

\* the scenario has been answered after a generation, both cabin seats going
\* to one and the same crew
C15_Witness ==
    /\ gpc = "returned"
    /\ generation >= 1
    /\ ga_flights = flights
    /\ Len(ga_crew) = Len(crew)
    /\ result.success
    /\ \E i, j \in 1..Len(result.assignments) :
          i < j /\ result.assignments[i] = result.assignments[j]

\* C18: coverage measures covered slots.  For every individual evaluated and
\* for the returned KPIs, the coverage is the number of required role slots the
\* assignments fill (for every flight and role, no more assignments counted
\* than the flight needs for that role) divided by the total of required slots,
\* and covered_slots is that number.
C18_CoverageMeasuresSlots ==
    LET filled(sol) ==
            SeqSum([k \in 1..Len(ga_flights) |->
                SeqSum([gi \in 1..Len(RoleGroups) |->
                    Min(ga_flights[k][RoleGroups[gi].need],
                        Len(SelectSeq(sol, LAMBDA a : /\ a[2] = ga_flights[k].flight_id
                                                      /\ a[3] = RoleGroups[gi].label)))])])
        total == total_required_positions(ga_flights)
    IN /\ (gpc = "evolve" /\ total > 0) =>
             \A i \in 1..Len(population) :
                 coverage_term(ga_flights, population[i])
                    = (1000000 * filled(population[i])) \div total
       /\ GaReturned =>
             /\ result.covered_slots = filled(result.assignments)
             /\ result.coverage_pct = coverage_pct(filled(result.assignments), total)

\* C23: in every generation the EliteSize fittest individuals of the current
\* population are copied unchanged to the head of the next population, the
\* next population has population_size individuals, and the greatest fitness
\* in the population does not decrease from one generation to the next.
C23_Elitism ==
    [][(gpc = "offspring" /\ gpc' = "evolve") =>
          /\ Len(population') = PopulationSize
          /\ \E e \in EliteIndexLists(fitness_scores, EliteSize) :
                \A i \in 1..EliteSize : population'[i] = population[e[i]]
          /\ fitness_scores'[ArgMax(fitness_scores')]
                >= fitness_scores[ArgMax(fitness_scores)]]_vars

\* a generation has ended with an offspring less fit than the elite it joins
C23_Witness ==
    /\ gpc = "evolve"
    /\ generation = 1
    /\ Len(population) = PopulationSize
    /\ fitness_scores[EliteSize + 1] < fitness_scores[1]

\* C24: throughout the generation loop best_fitness does not decrease,
\* best_solution is an individual whose fitness is best_fitness, no individual
\* of the evaluated population is fitter, and the assignments optimize returns
\* are those of best_solution.
C24_BestSeen ==
    /\ [](gpc \in {"evolve", "offspring"} =>
             /\ Fitnesses(<<best_solution>>)[1] = best_fitness
             /\ \A i \in 1..Len(fitness_scores) : fitness_scores[i] <= best_fitness)
    /\ []((gpc = "returned" /\ result.success) => result.assignments = best_solution)
    /\ [][(gpc \in {"evolve", "offspring"} /\ gpc' \in {"evolve", "offspring", "returned"})
             => best_fitness' >= best_fitness]_vars

\* optimize has returned an offspring that beat the elite of the initial
\* population
C24_Witness ==
    /\ gpc = "returned"
    /\ result.success
    /\ generation = 1
    /\ fitness_scores[EliteSize + 1] > fitness_scores[1]
    /\ result.assignments = population[EliteSize + 1]

\* C25: optimize always terminates and runs at most `generations`
\* generations; no generation starts once the time budget is exceeded, and a
\* generation that has started runs to its end, the population rebuilt to
\* population_size and evaluated, whatever the clock says meanwhile.
C25_TimeBoxed ==
    /\ [](generation <= Generations)
    /\ [][(gpc = "evolve" /\ gpc' = "offspring") => ~over_time]_vars
    /\ [][gpc = "offspring" => gpc' \in {"offspring", "evolve"}]_vars
    /\ [][(gpc = "offspring" /\ gpc' = "evolve") =>
             /\ generation' = generation + 1
             /\ Len(population') = PopulationSize
             /\ Len(fitness_scores') = PopulationSize]_vars
    /\ (gpc = "offspring") ~> (gpc = "evolve")
    /\ (gpc = "loaded") ~> (gpc \in {"returned", "failed"})

\* optimize has returned the best of the initial population without running a
\* generation, the budget being exceeded at the top of the loop
C25_Witness ==
    /\ gpc = "returned"
    /\ result.success
    /\ generation = 0
    /\ generation < Generations
    /\ over_time

\* C26: the seed built from the baseline, before the continuity repair,
\* contains every baseline triple whose crew and flight are loaded, whose crew
\* is available, whose role is the crew's role and whose flight's aircraft
\* type is among the crew's qualified types.
C26_SeedKeepsBaseline ==
    (gpc = "loaded" /\ baseline_pairs # {}) =>
        \A seed \in _build_seed_from_baseline(ga_flights, ga_crew, baseline_pairs) :
            \A a \in baseline_pairs :
                (/\ HasCrew(ga_crew, a[1])
                 /\ IsLoaded(ga_flights, a[2])
                 /\ CrewById(ga_crew, a[1]).available
                 /\ a[3] = CrewById(ga_crew, a[1]).role
                 /\ GaQualified(CrewById(ga_crew, a[1]), FlightById(ga_flights, a[2])))
                   => a \in Range(seed)

\* C14: stability monotonicity.  For two runs of the genetic optimizer on the
\* same flights, crew and baseline, with the same random draws (the same calls
\* with the same ranges returning the same values) and w_stability w1 < w2, the
\* best solution returned with w2 keeps at least as many baseline pairs as the
\* best solution returned with w1.
C14_StabilityMonotone ==
    (stab.phase = "run" /\ stab.w[1].calls = stab.w[2].calls) =>
        stab.w[2].kept >= stab.w[1].kept

-----------------------------------------------------------------------------
(* app.py: the /api/optimize and /api/reoptimize handlers.  A solve attempt *)
(* is a call of OptimizationService.run_optimization; whether it succeeds   *)
(* depends on the data and is any of the two outcomes.  Requests are served *)
(* one at a time.                                                           *)

\* run_optimization: the genetic path receives the baseline and the exclusions,
\* the exact path is called without them
run_optimization(use_genetic, with_baseline, ok, job) ==
    [success |-> ok,
     solver |-> IF use_genetic THEN "GA" ELSE "ORTOOLS",
     baseline |-> IF use_genetic THEN with_baseline ELSE FALSE,
     job |-> job]

CurrentJob == Len(optimization_jobs)

\* optimize / reoptimize up to the first call of run_optimization: the job is
\* entered as running; /api/reoptimize answers 400 without a baseline roster
ReceiveRequest ==
    /\ api_pc = "idle"
    /\ Len(optimization_jobs) < MaxJobs
    /\ \E kind \in {"optimize", "reoptimize"} :
          IF kind = "reoptimize" /\ baseline_roster = <<>>
          THEN /\ api_response' = [code |-> 400]
               /\ api_kind' = kind
               /\ attempts' = <<>>
               /\ UNCHANGED <<optimization_jobs, api_pc, api_result>>
          ELSE /\ optimization_jobs' = Append(optimization_jobs, [status |-> "running", type |-> kind])
               /\ api_kind' = kind
               /\ attempts' = <<>>
               /\ api_result' = [success |-> FALSE]
               /\ api_response' = [code |-> 0]
               /\ api_pc' = "genetic"
    /\ UNCHANGED <<baseline_roster, current_roster, handlers>>
    /\ UNCHANGED <<eligVars, exactVars, gaVars, stab>>

\* the first attempt: use_genetic = True, with the baseline for /api/reoptimize
GeneticAttempt ==
    /\ api_pc = "genetic"
    /\ \E ok \in BOOLEAN :
          /\ api_result' = run_optimization(TRUE, api_kind = "reoptimize", ok, CurrentJob)
          /\ attempts' = Append(attempts, run_optimization(TRUE, api_kind = "reoptimize", ok, CurrentJob))
    /\ api_pc' = "fallback"
    /\ UNCHANGED <<optimization_jobs, api_kind, api_response>>
    /\ UNCHANGED <<baseline_roster, current_roster, handlers>>
    /\ UNCHANGED <<eligVars, exactVars, gaVars, stab>>

\* "if not result.get('success')": the fallback block, use_genetic = False
Fallback ==
    /\ api_pc = "fallback"
    /\ IF ~api_result.success
       THEN \E ok \in BOOLEAN :
              /\ api_result' = run_optimization(FALSE, api_kind = "reoptimize", ok, CurrentJob)
              /\ attempts' = Append(attempts, run_optimization(FALSE, api_kind = "reoptimize", ok, CurrentJob))
       ELSE UNCHANGED <<api_result, attempts>>
    /\ api_pc' = IF api_kind = "reoptimize" THEN "fallback2" ELSE "respond"
    /\ UNCHANGED <<optimization_jobs, api_kind, api_response>>
    /\ UNCHANGED <<baseline_roster, current_roster, handlers>>
    /\ UNCHANGED <<eligVars, exactVars, gaVars, stab>>

\* reoptimize: the fallback block a second time
FallbackAgain ==
    /\ api_pc = "fallback2"
    /\ IF ~api_result.success
       THEN \E ok \in BOOLEAN :
              /\ api_result' = run_optimization(FALSE, api_kind = "reoptimize", ok, CurrentJob)
              /\ attempts' = Append(attempts, run_optimization(FALSE, api_kind = "reoptimize", ok, CurrentJob))
       ELSE UNCHANGED <<api_result, attempts>>
    /\ api_pc' = "respond"
    /\ UNCHANGED <<optimization_jobs, api_kind, api_response>>
    /\ UNCHANGED <<baseline_roster, current_roster, handlers>>
    /\ UNCHANGED <<eligVars, exactVars, gaVars, stab>>

\* "if result['success']": rosters and job record, then the response.  A failed
\* /api/reoptimize answers 500 and leaves its job record as it was.
Respond ==
    /\ api_pc = "respond"
    /\ IF api_result.success
       THEN /\ current_roster' = <<api_result>>
            /\ baseline_roster' = IF api_kind = "optimize" THEN <<api_result>> ELSE baseline_roster
            /\ optimization_jobs' = [optimization_jobs EXCEPT ![CurrentJob].status = "completed"]
            /\ api_response' = [code |-> 200]
       ELSE /\ UNCHANGED <<current_roster, baseline_roster>>
            /\ optimization_jobs' =
                  IF api_kind = "optimize"
                  THEN [optimization_jobs EXCEPT ![CurrentJob].status = "failed"]
                  ELSE optimization_jobs
            /\ api_response' = [code |-> 500]
    /\ api_pc' = "idle"
    /\ UNCHANGED <<api_kind, attempts, api_result, handlers>>
    /\ UNCHANGED <<eligVars, exactVars, gaVars, stab>>

InitApi ==
    /\ flights = <<>>
    /\ crew = <<>>
    /\ EligIdle
    /\ ExactIdle
    /\ GaIdle
    /\ AppIdle
    /\ ApiIdle
    /\ stab = [phase |-> "idle"]

NextApi ==
    \/ ReceiveRequest
    \/ GeneticAttempt
    \/ Fallback
    \/ FallbackAgain
    \/ Respond

SpecApi == InitApi /\ [][NextApi]_vars

-----------------------------------------------------------------------------
(* app.py: requests served side by side.  Each handler runs in a thread of   *)
(* its own with its own locals; optimization_jobs, current_roster and        *)
(* baseline_roster are module globals that all of them share.  A result is   *)
(* [success, assignments], the assignments being (crew_id, flight_id) pairs. *)

\* calculate_roster_changes(before, after): the pairs removed and the pairs added
calculate_roster_changes(before, after) ==
    IF before[1].assignments = {} \/ after[1].assignments = {}
    THEN [removed |-> {}, added |-> {}]
    ELSE [removed |-> before[1].assignments \ after[1].assignments,
          added |-> after[1].assignments \ before[1].assignments]

\* optimize / reoptimize up to the try block: /api/reoptimize answers 400
\* without a baseline roster; otherwise the job is entered as running
HandlerBegin(h) ==
    /\ handlers[h].pc = "idle"
    /\ Len(optimization_jobs) < MaxJobs
    /\ \E kind \in {"optimize", "reoptimize"} :
          IF kind = "reoptimize" /\ baseline_roster = <<>>
          THEN /\ handlers' = [handlers EXCEPT ![h].kind = kind,
                                               ![h].response = [code |-> 400]]
               /\ UNCHANGED optimization_jobs
          ELSE /\ optimization_jobs' = Append(optimization_jobs, [status |-> "running", type |-> kind])
               /\ handlers' = [handlers EXCEPT ![h] =
                     [pc |-> IF kind = "optimize" THEN "run" ELSE "hints",
                      kind |-> kind,
                      job |-> Len(optimization_jobs) + 1,
                      baseline_assignments |-> {},
                      result |-> [success |-> FALSE, assignments |-> {}],
                      response |-> [code |-> 0]]]
    /\ UNCHANGED <<api_pc, api_kind, attempts, api_result, api_response>>
    /\ UNCHANGED <<baseline_roster, current_roster>>
    /\ UNCHANGED <<eligVars, exactVars, gaVars, stab>>

\* reoptimize: baseline_assignments = baseline_roster.get("assignments", [])
BuildStabilityHints(h) ==
    /\ handlers[h].pc = "hints"
    /\ handlers' = [handlers EXCEPT ![h].baseline_assignments = baseline_roster[1].assignments,
                                    ![h].pc = "run"]
    /\ UNCHANGED <<optimization_jobs, api_pc, api_kind, attempts, api_result, api_response>>
    /\ UNCHANGED <<baseline_roster, current_roster>>
    /\ UNCHANGED <<eligVars, exactVars, gaVars, stab>>

\* the calls of run_optimization, fallbacks included: the outcome depends on the
\* data and on the random draws of the genetic path
RunOptimization(h) ==
    /\ handlers[h].pc = "run"
    /\ \E ok \in BOOLEAN, a \in {{<<"C1", "F1">>}, {<<"C2", "F1">>}} :
          handlers' = [handlers EXCEPT
                          ![h].result = [success |-> ok, assignments |-> IF ok THEN a ELSE {}],
                          ![h].pc = "store"]
    /\ UNCHANGED <<optimization_jobs, api_pc, api_kind, attempts, api_result, api_response>>
    /\ UNCHANGED <<baseline_roster, current_roster>>
    /\ UNCHANGED <<eligVars, exactVars, gaVars, stab>>

\* "if result['success']" to the return: /api/optimize stores the result as
\* current and baseline roster; /api/reoptimize stores it as current roster and
\* reads the global baseline_roster for the diff and for 'before'.  A failed
\* /api/reoptimize leaves its job record as it was.
HandlerRespond(h) ==
    /\ handlers[h].pc = "store"
    /\ IF handlers[h].result.success
       THEN /\ current_roster' = <<handlers[h].result>>
            /\ baseline_roster' = IF handlers[h].kind = "optimize"
                                  THEN <<handlers[h].result>>
                                  ELSE baseline_roster
            /\ optimization_jobs' = [optimization_jobs EXCEPT ![handlers[h].job].status = "completed"]
            /\ handlers' = [handlers EXCEPT
                  ![h].pc = "idle",
                  ![h].response =
                      IF handlers[h].kind = "optimize"
                      THEN [code |-> 200]
                      ELSE [code |-> 200,
                            before |-> baseline_roster,
                            after |-> <<handlers[h].result>>,
                            changes |-> calculate_roster_changes(baseline_roster, <<handlers[h].result>>)]]
       ELSE /\ UNCHANGED <<current_roster, baseline_roster>>
            /\ optimization_jobs' =
                  IF handlers[h].kind = "optimize"
                  THEN [optimization_jobs EXCEPT ![handlers[h].job].status = "failed"]
                  ELSE optimization_jobs
            /\ handlers' = [handlers EXCEPT ![h].pc = "idle", ![h].response = [code |-> 500]]
    /\ UNCHANGED <<api_pc, api_kind, attempts, api_result, api_response>>
    /\ UNCHANGED <<eligVars, exactVars, gaVars, stab>>

NextThreads ==
    \/ \E h \in 1..MaxHandlers : HandlerBegin(h)
    \/ \E h \in 1..MaxHandlers : BuildStabilityHints(h)
    \/ \E h \in 1..MaxHandlers : RunOptimization(h)
    \/ \E h \in 1..MaxHandlers : HandlerRespond(h)

SpecThreads == InitApi /\ [][NextThreads]_vars

\* C10: two-stage fallback.  A run makes one genetic attempt; the exact path is
\* attempted only after the genetic attempt failed, at most once and without the
\* baseline; a run whose exact attempt fails as well is answered as failed.  A
\* run makes at most two attempts, on /api/optimize and on /api/reoptimize.
C10_TwoStageFallback ==
    /\ Len(attempts) <= 2
    /\ \A i \in 1..Len(attempts) :
          /\ (i = 1) => attempts[i].solver = "GA"
          /\ (attempts[i].solver = "ORTOOLS") =>
                /\ i = 2
                /\ ~attempts[1].success
                /\ ~attempts[i].baseline
    /\ (api_response.code = 500) => \A i \in 1..Len(attempts) : ~attempts[i].success

\* C29: job lifecycle.  A job entered by /api/optimize or /api/reoptimize has
\* status "running" only while its handler is executing; once the handler has
\* answered, the status is "completed" or "failed"; and a status of "completed"
\* or "failed" never changes again.
C29_JobLifecycle ==
    /\ [](\A j \in 1..Len(optimization_jobs) :
             /\ optimization_jobs[j].status \in {"running", "completed", "failed"}
             /\ (optimization_jobs[j].status = "running") =>
                    (j = CurrentJob /\ api_pc # "idle"))
    /\ [][\A j \in 1..Len(optimization_jobs) :
             (optimization_jobs[j].status \in {"completed", "failed"}) =>
                 optimization_jobs'[j].status = optimization_jobs[j].status]_vars

\* C30: re-optimization and its baseline under concurrency.  For every
\* interleaving of /api/optimize and /api/reoptimize handlers, the 'before'
\* roster of a reoptimize response, and the roster its 'changes' are the diff
\* against, is the baseline roster whose assignments the run received as
\* baseline_assignments; and no reoptimize handler changes baseline_roster.
C30_BaselineConsistent ==
    /\ [](\A h \in 1..MaxHandlers :
             (handlers[h].kind = "reoptimize" /\ handlers[h].response.code = 200) =>
                 /\ handlers[h].response.before[1].assignments = handlers[h].baseline_assignments
                 /\ handlers[h].response.changes =
                        [removed |-> handlers[h].baseline_assignments
                                        \ handlers[h].response.after[1].assignments,
                         added |-> handlers[h].response.after[1].assignments
                                        \ handlers[h].baseline_assignments])
    /\ [][\A h \in 1..MaxHandlers :
             (handlers[h].kind = "reoptimize" /\ handlers'[h] # handlers[h]) =>
                 baseline_roster' = baseline_roster]_vars

====
